---- MODULE Spec2Model ----
(***************************************************************************)
(* Service worker of Material Money (sw.js): cache generations, the        *)
(* install / activate lifecycle and the fetch router with its strategies.  *)
(* The host (the user agent) is modelled by what the handlers rely on:     *)
(* cache storage, the network, the worker's lifecycle state and the        *)
(* delivery of FetchEvents.                                                *)
(***************************************************************************)
EXTENDS Integers, Sequences, FiniteSets, TLC

(* ------------------------------ bounds --------------------------------- *)
\* how many entries of urlsToCache the model precaches
ManifestLen == 2
\* how many stale generations (older versions) cache storage may hold
MaxStale == 2
\* how many FetchEvents the host delivers to a worker started activated
MaxRequests == 2
\* how many FetchEvents the host delivers in the run that activated the worker
MaxFirstRequests == 1
\* how many concurrent FetchEvents the host delivers in a run that records the
\* order in which fetches settle
MaxRaceRequests == 2
\* how many calls of saveToStore and loadFromStore the page makes
MaxDbOps == 2
\* how many calls the page makes when it makes them concurrently
MaxConcurrentOps == 3
\* how many requests the page makes with fetchFile and fetchJson
\* how many FetchEvents arrive in a run in which cache storage can fail
MaxStorageRequests == 1
MaxXhrs == 1
\* how many times the update button is clicked
MaxUpdates == 1
\* how many listeners a ModelEntry has at most
MaxListeners == 2
\* how many sync events the host delivers
MaxSyncs == 2
\* how many different bodies the server may answer with for one URL
NumBodies == 2

(* ---------------------------- sw.js constants -------------------------- *)
APP_CACHE == "material-money-v8"

RATE_URL == "/rates"

\* version number encoded in APP_CACHE
APP_VERSION == 8

SELF == "https://material.money"

MAPS == "https://maps.googleapis.com"

Manifest ==
  << "/", "/favicon.ico", "/manifest.json", "/data/country-currencies.json",
     "/data/currencies.json", "/scripts/views/view-0.js",
     "/scripts/views/view-1.js", "/styles/styles.min.css",
     "/images/ic_arrow_back.svg", "/images/ic_home.svg",
     "/images/ic_language.svg", "/images/ic_more_vert.svg",
     "/images/ic_refresh.svg", "/images/ic_warning.svg",
     "/images/touch/apple-touch-icon.png",
     "/images/touch/chrome-touch-icon-192x192.png",
     "/images/touch/icon-128x128.png", "/images/touch/icon-256x256.png",
     "/images/touch/icon-512x512.png",
     "/images/touch/ms-touch-icon-144x144-precomposed.png" >>

urlsToCache == SubSeq(Manifest, 1, ManifestLen)

(* ------------------------------- URLs ---------------------------------- *)
\* new URL(...): origin, pathname and search (query string, "?" included)
Url(origin, pathname, search) ==
  [origin |-> origin, pathname |-> pathname, search |-> search]

\* a manifest string resolved against the worker's own origin
SelfUrl(path) == Url(SELF, path, "")

ManifestUrls == { SelfUrl(urlsToCache[i]) : i \in 1..Len(urlsToCache) }

\* the requests the pages of the application issue
RequestUrls ==
  { SelfUrl(RATE_URL),                          \* _fetchRates()
    Url(SELF, RATE_URL, "?1490000000000"),      \* _fetchRates(true)
    SelfUrl("/"),                               \* navigation
    SelfUrl("/favicon.ico"),                    \* precached asset
    SelfUrl("/scripts/main.min.js"),            \* same origin, not precached
    Url(MAPS, "/maps/api/geocode/json", "?latlng=1,2") }  \* reverseGeocode

(* ----------------------------- responses ------------------------------- *)
Response(status, body) == [status |-> status, body |-> body]

\* fetch() rejected (TypeError: no connectivity)
NetworkError == Response(0, 0)

\* no response yet
NoResponse == Response(-1, 0)

OkResponses == { Response(200, b) : b \in 1..NumBodies }

\* what a settled network fetch can produce
NetOutcomes == OkResponses \cup { Response(404, 0), NetworkError }

\* the version of the precached files the server serves while install runs
Deployed == Response(200, NumBodies)

\* what one of addAll's fetches can produce
InstallOutcomes == { Deployed, Response(404, 0), NetworkError }

IsResponse(r) == r.status >= 100

\* Response.ok
IsOk(r) == r.status >= 200 /\ r.status <= 299

(* --------------------------- cache storage ----------------------------- *)
\* a Cache is a set of entries; caches is a function name -> Cache whose
\* domain is caches.keys()
Entry(url, response) == [url |-> url, response |-> response]

\* mutant: an entry that exists is kept
CachePutKeepsFirst(cache, url, response) ==
  IF { e \in cache : e.url = url } # {} THEN cache
  ELSE cache \cup { [url |-> url, response |-> response] }

\* cache.put(request, response): replaces every entry matching the request
CachePut(cache, url, response) ==
  { e \in cache : e.url # url } \cup { Entry(url, response) }

\* the entries cache.match(request) selects (GET, search significant)
CacheMatching(cache, url) == { e \in cache : e.url = url }

\* cache.match(request): the response, or undefined (NoResponse)
CacheMatch(cache, url) ==
  IF CacheMatching(cache, url) = {} THEN NoResponse
  ELSE (CHOOSE e \in CacheMatching(cache, url) : TRUE).response

\* caches.open(name): creates the cache when it does not exist
CachesOpen(cs, name) ==
  IF name \in DOMAIN cs THEN cs
  ELSE [n \in DOMAIN cs \cup {name} |-> IF n = name THEN {} ELSE cs[n]]

\* caches.delete(name)
CachesDelete(cs, name) == [n \in DOMAIN cs \ {name} |-> cs[n]]

\* caches[name] after replacing the cache stored under name
CachesWith(cs, name, cache) ==
  [n \in DOMAIN cs \cup {name} |-> IF n = name THEN cache ELSE cs[n]]

StaleNames ==
  { "material-money-v" \o ToString(v) : v \in (APP_VERSION - MaxStale)..(APP_VERSION - 1) }

\* a precache as an earlier, successful install left it
Precached == { Entry(u, Response(200, 1)) : u \in ManifestUrls }

\* what cache storage may hold when the worker starts: any set of stale
\* generations, and the current one absent, empty or populated
PriorCaches ==
  { [n \in S |-> IF n = APP_CACHE THEN c ELSE Precached] :
      S \in SUBSET (StaleNames \cup {APP_CACHE}), c \in { {}, Precached } }

VARIABLES
  swState,        \* ServiceWorker.state
  caches,         \* CacheStorage: generation name -> set of entries
  installPc,      \* install handler: "idle", "open", "fetching", "done"
  installFetch,   \* addAll: outcome of each manifest fetch
  installPrior,   \* entries of the current generation when addAll began
  installResult,  \* promise handed to install's waitUntil
  activatePc,     \* activate handler: "idle", "keys", "deleting", "done"
  activateKeys,   \* cacheNames as caches.keys() returned them
  pendingDeletes, \* caches.delete() calls not yet completed
  deleteIssued,   \* every name activate passed to caches.delete()
  activateResult, \* promise handed to activate's waitUntil
  reqs,           \* the FetchEvents delivered so far
  idb,            \* self.indexedDB as the page sees it
  kv,             \* IndexedDB database 'db', object store 'kv': key -> value
  ls,             \* localStorage: key -> text
  ops,            \* the calls of saveToStore and loadFromStore so far
  xhrs,           \* the calls of fetchFile and fetchJson so far
  syncs,          \* the sync events delivered so far
  entries,        \* the ModelEntry objects of the page: name -> entry
  app             \* the App object of the page

vars ==
  << swState, caches, installPc, installFetch, installPrior, installResult,
     activatePc, activateKeys, pendingDeletes, deleteIssued, activateResult,
     reqs, idb, kv, ls, ops, xhrs, syncs, entries, app >>

\* the key-value store of the page (scripts/db.js)
dbVars == << idb, kv, ls, ops >>

\* the network client of the page (scripts/promise-utils.js)
clientVars == << xhrs >>

\* the page has made no request
ClientIdle == xhrs = << >>

\* the background tasks of the worker (the sync listener)
taskVars == << syncs >>

\* the host has delivered no sync event
TaskIdle == syncs = << >>

\* the model and the application object of the page
pageVars == << entries, app >>

\* no ModelEntry has been constructed
NoEntries == [name \in {} |-> 0]

\* The App object.
\*   pc            "off" no App; "constructed"; "init" _init() has run
\*   rates         this._rates
\*   loadRates     the promise loadRates of _init: "loading" (the stored
\*                 rates), "fetching" (the fetch made when that failed),
\*                 "resolved", "rejected"
\*   styles, mappings, common   loadExtraCSS, loadCountryMappings,
\*                 loadCommonValues: "pending", "resolved", "rejected"
\*   defaulted     a common value could not be loaded and got its default
\*   booted        the callbacks of this._booted have run
\*   serviceWorker 'serviceWorker' in navigator
\*   scheduling    calls of _scheduleRateFetch waiting for the registration
\*   registrations calls of registration.sync.register('rates')
\*   updates       clicks on the update button
\*   fetches       the calls of _fetchRates
\*   loads         the calls of _loadRates
AppOff ==
  [ pc |-> "off", rates |-> [t |-> "undefined", n |-> 0, s |-> "", kids |-> << >>],
    loadRates |-> "none", styles |-> "none", mappings |-> "none",
    common |-> "none", defaulted |-> FALSE, booted |-> FALSE,
    serviceWorker |-> FALSE, scheduling |-> 0, registrations |-> 0,
    updates |-> 0, fetches |-> << >>, loads |-> << >> ]

\* the page has not constructed its application
PageIdle == entries = NoEntries /\ app = AppOff

\* what the cache handlers of the worker never touch
otherVars == << dbVars, clientVars, taskVars, pageVars >>

\* a store without records
NoRecords == [k \in {} |-> 0]

\* the page has not touched its key-value store
DbIdle ==
  /\ idb = "available"
  /\ kv = NoRecords
  /\ ls = NoRecords
  /\ ops = << >>

lifecycleVars ==
  << swState, installPc, installFetch, installPrior, installResult,
     activatePc, activateKeys, pendingDeletes, deleteIssued, activateResult >>

installVars == << installPc, installFetch, installPrior, installResult >>

activateVars ==
  << activatePc, activateKeys, pendingDeletes, deleteIssued, activateResult >>

\* addAll has received no response
Unfetched == [i \in 1..Len(urlsToCache) |-> NoResponse]

(* ------------------------------- Init ---------------------------------- *)
\* The worker script has been evaluated: either for a first installation
\* ("parsed") or after a restart while it waits to activate ("installed").
\* Cache storage belongs to the origin, not to the worker: it holds whatever
\* earlier versions, other scripts of the origin or the user agent left.
WorkerInit ==
  /\ swState \in {"parsed", "installed"}
  /\ caches \in PriorCaches
  \* a worker that installed populated its generation; an empty one is what
  \* a failed installation leaves behind
  /\ (swState = "installed" /\ APP_CACHE \in DOMAIN caches)
       => caches[APP_CACHE] = Precached
  /\ installPc = "idle"
  /\ installFetch = Unfetched
  /\ installPrior = {}
  /\ installResult = "pending"
  /\ activatePc = "idle"
  /\ activateKeys = {}
  /\ pendingDeletes = {}
  /\ deleteIssued = {}
  /\ activateResult = "pending"
  /\ reqs = << >>

\* the worker of a page that has not touched its key-value store
Init == WorkerInit /\ DbIdle /\ ClientIdle /\ TaskIdle /\ PageIdle

(* ------------------------------ install -------------------------------- *)
\* 'install' event: caches.open(APP_CACHE) is called
InstallStart ==
  /\ swState = "parsed"
  /\ swState' = "installing"
  /\ installPc' = "open"
  /\ UNCHANGED << otherVars, caches, installFetch, installPrior, installResult,
                  activateVars, reqs >>

\* caches.open resolved; cache.addAll(urlsToCache) starts one fetch per URL
InstallOpen ==
  /\ installPc = "open"
  /\ caches' = CachesOpen(caches, APP_CACHE)
  /\ installPrior' = caches'[APP_CACHE]
  /\ installPc' = "fetching"
  /\ UNCHANGED << otherVars, swState, installFetch, installResult, activateVars, reqs >>

\* one of addAll's fetches settles
InstallFetchSettle ==
  /\ installPc = "fetching"
  /\ \E i \in 1..Len(urlsToCache), r \in InstallOutcomes :
       /\ installFetch[i] = NoResponse
       /\ installFetch' = [installFetch EXCEPT ![i] = r]
  /\ UNCHANGED << otherVars, swState, caches, installPc, installPrior, installResult,
                  activateVars, reqs >>

\* addAll rejects when a fetch failed or its response is not ok
AddAllFailed(fetched) ==
  \E i \in DOMAIN fetched : fetched[i] # NoResponse /\ ~IsOk(fetched[i])

\* addAll has every response and all are ok
AddAllReady(fetched) ==
  \A i \in DOMAIN fetched : IsOk(fetched[i])

RECURSIVE PutAll(_, _, _)
\* addAll's batch of puts, in manifest order
PutAll(cache, fetched, i) ==
  IF i > Len(urlsToCache) THEN cache
  ELSE PutAll(CachePut(cache, SelfUrl(urlsToCache[i]), fetched[i]), fetched, i + 1)

\* mutant: the batch starts at the second URL of the manifest
AddAllResultSkipsFirst(cache, fetched) == PutAll(cache, fetched, 2)

\* the cache addAll leaves when it resolves
AddAllResult(cache, fetched) == PutAll(cache, fetched, 1)

\* mutant: the responses that arrived are stored although addAll rejects
AddAllRejectedPartial(cache, fetched) ==
  cache \cup { Entry(SelfUrl(urlsToCache[i]), fetched[i]) :
                 i \in { j \in DOMAIN fetched : IsOk(fetched[j]) } }

\* the cache addAll leaves when it rejects: the batch is all-or-nothing
AddAllRejected(cache, fetched) == cache

\* addAll rejected: the install promise rejects and the host discards the
\* worker
InstallReject ==
  /\ installPc = "fetching"
  /\ AddAllFailed(installFetch)
  /\ caches' = CachesWith(caches, APP_CACHE,
                          AddAllRejected(caches[APP_CACHE], installFetch))
  /\ installPc' = "done"
  /\ installResult' = "rejected"
  /\ swState' = "redundant"
  /\ UNCHANGED << otherVars, installFetch, installPrior, activateVars, reqs >>

\* every response arrived and is ok: the batch is stored, the install
\* promise resolves and the worker waits to be activated
InstallCommit ==
  /\ installPc = "fetching"
  /\ AddAllReady(installFetch)
  /\ caches' = CachesWith(caches, APP_CACHE,
                          AddAllResult(caches[APP_CACHE], installFetch))
  /\ installPc' = "done"
  /\ installResult' = "resolved"
  /\ swState' = "installed"
  /\ UNCHANGED << otherVars, installFetch, installPrior, activateVars, reqs >>

(* ------------------------------ activate ------------------------------- *)
\* 'activate' event: caches.keys() is called
ActivateStart ==
  /\ swState = "installed"
  /\ swState' = "activating"
  /\ activatePc' = "keys"
  /\ UNCHANGED << otherVars, caches, installVars, activateKeys, pendingDeletes,
                  deleteIssued, activateResult, reqs >>

\* mutant: only the generation right before the current one is stale
StaleOfPrevious(cacheNames) ==
  { n \in cacheNames : n = "material-money-v" \o ToString(APP_VERSION - 1) }

\* mutant: the filter keeps every name
StaleOfAll(cacheNames) == cacheNames

\* cacheNames.filter((cacheName) => cacheName !== APP_CACHE)
StaleOf(cacheNames) == { n \in cacheNames : n # APP_CACHE }

\* caches.keys() resolved: one caches.delete() per stale name
ActivateKeys ==
  /\ activatePc = "keys"
  /\ activateKeys' = DOMAIN caches
  /\ pendingDeletes' = StaleOf(DOMAIN caches)
  /\ deleteIssued' = StaleOf(DOMAIN caches)
  /\ activatePc' = "deleting"
  /\ UNCHANGED << otherVars, swState, caches, installVars, activateResult, reqs >>

\* one caches.delete() completes
\* mutant: deleting a generation clears the stores of the origin as well
DeleteDonePurges ==
  /\ \E n \in pendingDeletes :
       /\ caches' = CachesDelete(caches, n)
       /\ pendingDeletes' = pendingDeletes \ {n}
  /\ kv' = NoRecords
  /\ ls' = NoRecords
  /\ UNCHANGED << clientVars, taskVars, pageVars, idb, ops, swState, installVars, activatePc, activateKeys,
                  deleteIssued, activateResult, reqs >>

DeleteDone ==
  /\ \E n \in pendingDeletes :
       /\ caches' = CachesDelete(caches, n)
       /\ pendingDeletes' = pendingDeletes \ {n}
  /\ UNCHANGED << otherVars, swState, installVars, activatePc, activateKeys,
                  deleteIssued, activateResult, reqs >>

\* mutant: the deletions are not waited for
AllSettledUnawaited(pending) == TRUE

\* Promise.all(deletions) is fulfilled
AllSettled(pending) == pending = {}

\* the promise given to waitUntil resolves; the host marks the worker
\* activated, which is when it starts delivering FetchEvents to it
ActivateResolve ==
  /\ activatePc = "deleting"
  /\ AllSettled(pendingDeletes)
  /\ activatePc' = "done"
  /\ activateResult' = "resolved"
  /\ swState' = "activated"
  /\ UNCHANGED << otherVars, caches, installVars, activateKeys, pendingDeletes,
                  deleteIssued, reqs >>

(* ----------------------------- fetch router ---------------------------- *)
NETWORK_ONLY == "networkOnly"

SWR == "cacheThenUpdateWithCacheBust"

CACHE_FIRST == "cacheWithNetworkFallbackAndStore"

\* mutant: the branches compare the path with its query string
RouteByPathAndSearch(url) ==
  IF url.pathname \o url.search = "/rates" THEN NETWORK_ONLY
  ELSE IF url.pathname \o url.search = "/" THEN SWR
  ELSE CACHE_FIRST

\* mutant: the rate branch is missing
RouteWithoutRates(url) ==
  IF url.pathname = "/" THEN SWR ELSE CACHE_FIRST

\* the branch the 'fetch' listener takes for a request URL
Route(url) ==
  IF url.pathname = "/rates" THEN NETWORK_ONLY
  ELSE IF url.pathname = "/" THEN SWR
  ELSE CACHE_FIRST

\* Date.now() as the handler of the next FetchEvent reads it, in
\* milliseconds since the worker started
Now == Len(reqs) + 1

\* new Request(`${event.request.url}?${Date.now().toString()}`)
CacheBust(url, now) == Url(url.origin, url.pathname, url.search \o "?" \o ToString(now))

\* the generation fromCache() opens
FromCacheName == APP_CACHE

\* mutant: update() writes to a generation of its own
UpdateNameOwn == "updates"

\* the generation update() opens
UpdateName == APP_CACHE

\* entries of a generation (none once it has been deleted)
Generation(cs, name) == IF name \in DOMAIN cs THEN cs[name] ELSE {}

\* A FetchEvent and the progress of its handler.
\*   strategies  the strategy functions the listener invoked
\*   responded   event.respondWith() was called
\*   pc          where the promise that answers the page stands
\*   net         the handler's own fetch(): "none", "pending", "settled"
\*   netUrl      the URL that fetch() requests
\*   netResp     what that fetch() settled with
\*   bg          the promise given to event.waitUntil (write-back)
\*   delivered   the response the page received
\*   outcome     "pending", "fulfilled" or "rejected", as the page sees it
\*   answeredBy  "cache", "handlerFetch" or "hostFetch"
\*   fetches     network requests the handler issued
\*   hostFetches network requests the host issued for the event itself
\*   reads       cache.match() calls; writes: cache.put() calls
\*   opened      the generation names the handler opened
\*   mutations   steps of this handler that changed cache storage
\*   matchEpoch  number of cache storage changes before its cache.match()
\*   putEpoch    number of cache storage changes up to its cache.put()
\*   netSeq      rank of its fetch() among the settled fetches for its identity,
\*               in the runs that record it (0 otherwise)
\*   readFailed  its fromCache() rejected because cache storage failed
\*   writeFailed its update() rejected because cache storage failed
NewRequest(url) ==
  [ url |-> url, strategies |-> {}, responded |-> FALSE, pc |-> "new",
    net |-> "none", netUrl |-> url, netResp |-> NoResponse, bg |-> "none",
    delivered |-> NoResponse, outcome |-> "pending", answeredBy |-> "none",
    fetches |-> 0, hostFetches |-> 0, reads |-> 0, writes |-> 0,
    opened |-> {}, mutations |-> 0, matchEpoch |-> 0, putEpoch |-> 0,
    netSeq |-> 0, readFailed |-> FALSE, writeFailed |-> FALSE ]

\* pathname === '/rates': fetch(event.request), its promise dropped; the
\* listener returns without respondWith, so the host performs the request
StartNetworkOnly(r) ==
  [r EXCEPT !.strategies = @ \cup {NETWORK_ONLY},
            !.net = "pending", !.fetches = @ + 1,
            !.pc = "hostFetch", !.hostFetches = @ + 1]

\* mutant: the network is asked only when the lookup has missed
StartSwrLazy(r, now) ==
  [r EXCEPT !.strategies = @ \cup {SWR},
            !.netUrl = CacheBust(r.url, now),
            !.responded = TRUE, !.pc = "swrMatch", !.bg = "waitNet"]

\* cacheThenUpdateWithCacheBust(event) up to its return
StartSwr(r, now) ==
  [r EXCEPT !.strategies = @ \cup {SWR},
            !.netUrl = CacheBust(r.url, now),
            !.net = "pending", !.fetches = @ + 1,
            !.responded = TRUE, !.pc = "swrMatch", !.bg = "waitNet"]

\* mutant: only same-origin requests are answered, others are left to the host
StartCacheFirstSameOrigin(r) ==
  IF r.url.origin = SELF
  THEN [r EXCEPT !.strategies = @ \cup {CACHE_FIRST},
                 !.responded = TRUE, !.pc = "cfMatch"]
  ELSE [r EXCEPT !.pc = "hostFetch", !.hostFetches = @ + 1]

\* cacheWithNetworkFallbackAndStore(event) up to its return
StartCacheFirst(r) ==
  [r EXCEPT !.strategies = @ \cup {CACHE_FIRST},
            !.responded = TRUE, !.pc = "cfMatch"]

\* the whole 'fetch' listener, run synchronously on the event
OnFetch(url, now) ==
  IF Route(url) = NETWORK_ONLY THEN StartNetworkOnly(NewRequest(url))
  ELSE IF Route(url) = SWR THEN StartSwr(NewRequest(url), now)
  ELSE StartCacheFirst(NewRequest(url))

RECURSIVE SumMutations(_, _)
SumMutations(rs, i) ==
  IF i > Len(rs) THEN 0 ELSE rs[i].mutations + SumMutations(rs, i + 1)

\* number of changes request handlers have made to cache storage
CacheEpoch == SumMutations(reqs, 1)

Bump(old, new) == IF old = new THEN 0 ELSE 1

\* the host delivers FetchEvents to an activated worker only
Dispatch(limit) ==
  /\ swState = "activated"
  /\ Len(reqs) < limit
  /\ \E url \in RequestUrls : reqs' = Append(reqs, OnFetch(url, Now))
  /\ UNCHANGED << otherVars, caches, lifecycleVars >>

\* a FetchEvent in the run that activated the worker
FirstDispatch == Dispatch(MaxFirstRequests)

\* the requests whose strategy goes through the cache
CachedUrls == { u \in RequestUrls : Route(u) # NETWORK_ONLY }

\* those among them that the page loads from its own origin
ServeUrls == { u \in CachedUrls : u.origin = SELF }

\* a FetchEvent for a cached resource of the page, in a run of a worker
\* started activated
ServeDispatch ==
  /\ swState = "activated"
  /\ Len(reqs) < MaxRequests
  /\ \E url \in ServeUrls : reqs' = Append(reqs, OnFetch(url, Now))
  /\ UNCHANGED << otherVars, caches, lifecycleVars >>

\* the host's own request for an event nobody answered settles
HostFetchSettle ==
  /\ \E i \in 1..Len(reqs), resp \in NetOutcomes :
       /\ reqs[i].pc = "hostFetch"
       /\ reqs' = [reqs EXCEPT ![i] =
            [@ EXCEPT !.pc = "done",
                      !.delivered = IF IsResponse(resp) THEN resp ELSE NoResponse,
                      !.outcome = IF IsResponse(resp) THEN "fulfilled" ELSE "rejected",
                      !.answeredBy = "hostFetch"]]
  /\ UNCHANGED << otherVars, caches, lifecycleVars >>

\* matching || Promise.reject('no-match')
Matching(cs, url) == CacheMatch(Generation(cs, FromCacheName), url)

\* the promise given to respondWith settles with a response
Deliver(r, resp, by) ==
  [r EXCEPT !.pc = "done", !.delivered = resp, !.outcome = "fulfilled",
            !.answeredBy = by]

\* the promise given to respondWith rejects
Fail(r) == [r EXCEPT !.pc = "done", !.outcome = "rejected"]

\* respondWith(networkClone): the outcome of the cache-busted fetch
DeliverNetwork(r) ==
  IF IsResponse(r.netResp) THEN Deliver(r, r.netResp, "handlerFetch") ELSE Fail(r)

\* fromCache() ran: caches.open(APP_CACHE), then cache.match(request)
Looked(r, cs, epoch) ==
  [r EXCEPT !.opened = @ \cup {FromCacheName}, !.reads = @ + 1,
            !.matchEpoch = epoch,
            !.mutations = @ + Bump(cs, CachesOpen(cs, FromCacheName))]

\* mutant: the cached response is returned and refreshed from the network
CacheFirstMatchedRefreshes(r, matching) ==
  IF matching # NoResponse
  THEN [Deliver(r, matching, "cache") EXCEPT !.net = "pending", !.fetches = @ + 1]
  ELSE [r EXCEPT !.pc = "cfNet", !.net = "pending", !.fetches = @ + 1]

\* cacheWithNetworkFallbackAndStore: fromCache() settled
CacheFirstMatched(r, matching) ==
  IF matching # NoResponse
  THEN Deliver(r, matching, "cache")
  ELSE [r EXCEPT !.pc = "cfNet", !.net = "pending", !.fetches = @ + 1]

\* mutant: the response is given only once the revalidation fetch settled
SwrMatchedAwaitsNetwork(r, matching) ==
  IF r.net = "settled"
  THEN (IF matching # NoResponse THEN Deliver(r, matching, "cache")
        ELSE DeliverNetwork(r))
  ELSE [r EXCEPT !.pc = "swrWaitNet"]

\* mutant: a miss is reported to the page at once
SwrMatchedFailsOnMiss(r, matching) ==
  IF matching # NoResponse THEN Deliver(r, matching, "cache") ELSE Fail(r)

\* cacheThenUpdateWithCacheBust: fromCache() settled
SwrMatched(r, matching) ==
  IF matching # NoResponse
  THEN Deliver(r, matching, "cache")
  ELSE IF r.net = "settled" THEN DeliverNetwork(r)
       ELSE [r EXCEPT !.pc = "swrWaitNet"]

\* fromCache(request) settles: the generation is opened (created when it is
\* absent) and looked up
FromCache ==
  /\ \E i \in 1..Len(reqs) :
       /\ reqs[i].pc \in {"cfMatch", "swrMatch"}
       /\ caches' = CachesOpen(caches, FromCacheName)
       /\ reqs' = [reqs EXCEPT ![i] =
            IF @.pc = "cfMatch"
            THEN CacheFirstMatched(Looked(@, caches, CacheEpoch), Matching(caches, @.url))
            ELSE SwrMatched(Looked(@, caches, CacheEpoch), Matching(caches, @.url))]
  /\ UNCHANGED << otherVars, lifecycleVars >>

\* mutant: a failed fetch of Cache-First is answered with an empty response
FetchSettledSwallows(r, resp, seq) ==
  LET s == [r EXCEPT !.net = "settled", !.netResp = resp, !.netSeq = seq] IN
  IF NETWORK_ONLY \in r.strategies THEN s
  ELSE IF CACHE_FIRST \in r.strategies
  THEN IF IsResponse(resp) THEN [s EXCEPT !.pc = "cfPut"]
       ELSE Deliver(s, Response(200, 0), "handlerFetch")
  ELSE LET b == [s EXCEPT !.bg = IF IsResponse(resp) THEN "put" ELSE "rejected"] IN
       IF r.pc = "swrWaitNet" THEN DeliverNetwork(b) ELSE b

\* the handler's fetch() settled with resp: the continuations attached to it
FetchSettled(r, resp, seq) ==
  LET s == [r EXCEPT !.net = "settled", !.netResp = resp, !.netSeq = seq] IN
  IF NETWORK_ONLY \in r.strategies THEN s
  ELSE IF CACHE_FIRST \in r.strategies
  THEN IF IsResponse(resp) THEN [s EXCEPT !.pc = "cfPut"] ELSE Fail(s)
  ELSE LET b == [s EXCEPT !.bg = IF IsResponse(resp) THEN "put" ELSE "rejected"] IN
       IF r.pc = "swrWaitNet" THEN DeliverNetwork(b) ELSE b

\* how many handler fetches for this identity have settled
SettledFetches(url) ==
  Cardinality({ i \in 1..Len(reqs) : reqs[i].url = url /\ reqs[i].net = "settled" })

\* a fetch() of a handler settles; ranked: the order of settling is recorded
SettleFetch(ranked) ==
  /\ \E i \in 1..Len(reqs), resp \in NetOutcomes :
       /\ reqs[i].net = "pending"
       /\ reqs' = [reqs EXCEPT ![i] =
            FetchSettled(@, resp,
                         IF ranked THEN SettledFetches(reqs[i].url) + 1 ELSE 0)]
  /\ UNCHANGED << otherVars, caches, lifecycleVars >>

\* the handler's own fetch() settles
HandlerFetchSettle == SettleFetch(FALSE)

\* the handler's own fetch() settles, in a run that records the order
RankedFetchSettle == SettleFetch(TRUE)

\* mutant: the response is stored under the cache-busted request
UpdateKeyBusted(r) == r.netUrl

\* the request update() is given: event.request in both strategies
UpdateKey(r) == r.url

\* mutant: update() opens the generation and stores nothing
UpdatedDropped(cs, url, resp) == CachesOpen(cs, UpdateName)

\* cache storage after update(request, response)
Updated(cs, url, resp) ==
  CachesWith(cs, UpdateName, CachePut(Generation(cs, UpdateName), url, resp))

\* update() ran: caches.open(APP_CACHE), then cache.put(request, response)
PutStep(r, cs, epoch) ==
  LET w == [r EXCEPT !.opened = @ \cup {UpdateName}, !.writes = @ + 1,
                     !.mutations = @ + Bump(cs, Updated(cs, UpdateKey(r), r.netResp)),
                     !.putEpoch = epoch + Bump(cs, Updated(cs, UpdateKey(r), r.netResp))] IN
  IF r.pc = "cfPut" THEN Deliver(w, r.netResp, "handlerFetch")
  ELSE [w EXCEPT !.bg = "done"]

\* update(request, response) settles: the response is stored under the
\* request of the event
Update ==
  /\ \E i \in 1..Len(reqs) :
       /\ reqs[i].pc = "cfPut" \/ reqs[i].bg = "put"
       /\ caches' = Updated(caches, UpdateKey(reqs[i]), reqs[i].netResp)
       /\ reqs' = [reqs EXCEPT ![i] = PutStep(@, caches, CacheEpoch)]
  /\ UNCHANGED << otherVars, lifecycleVars >>

Next ==
  \/ InstallStart
  \/ InstallOpen
  \/ InstallFetchSettle
  \/ InstallReject
  \/ InstallCommit
  \/ ActivateStart
  \/ ActivateKeys
  \/ DeleteDone
  \/ ActivateResolve
  \/ FirstDispatch
  \/ HostFetchSettle
  \/ FromCache
  \/ HandlerFetchSettle
  \/ Update

\* installation, activation and the first requests of a new worker
Spec == Init /\ [][Next]_vars

\* what cache storage may hold when an activated worker is started: no
\* stale generation, and the current one populated or absent (an absent one
\* is created empty by the first lookup)
ServeCaches ==
  { c \in PriorCaches :
      DOMAIN c \subseteq {APP_CACHE} /\ \A n \in DOMAIN c : c[n] = Precached }

\* The worker script has been evaluated to handle events of an activated
\* worker: no lifecycle handler runs.
InitServe ==
  /\ swState = "activated"
  /\ caches \in ServeCaches
  /\ installPc = "idle"
  /\ installFetch = Unfetched
  /\ installPrior = {}
  /\ installResult = "pending"
  /\ activatePc = "idle"
  /\ activateKeys = {}
  /\ pendingDeletes = {}
  /\ deleteIssued = {}
  /\ activateResult = "pending"
  /\ reqs = << >>
  /\ DbIdle
  /\ ClientIdle
  /\ TaskIdle
  /\ PageIdle

NextServe ==
  \/ ServeDispatch
  \/ FromCache
  \/ HandlerFetchSettle
  \/ Update

\* an activated worker serving the requests it answers through the cache
SpecServe == InitServe /\ [][NextServe]_vars

\* the identities of the concurrent requests: the document, which is
\* revalidated, and a resource the manifest does not list
RaceUrls == { SelfUrl("/"), SelfUrl("/scripts/main.min.js") }

\* a FetchEvent for one of the identities above
RaceDispatch ==
  /\ swState = "activated"
  /\ Len(reqs) < MaxRaceRequests
  /\ \E url \in RaceUrls : reqs' = Append(reqs, OnFetch(url, Now))
  /\ UNCHANGED << otherVars, caches, lifecycleVars >>

\* a FetchEvent for the document or the resource, the order of fetches not
\* being recorded
DocumentDispatch ==
  /\ swState = "activated"
  /\ Len(reqs) < MaxRequests
  /\ \E url \in RaceUrls : reqs' = Append(reqs, OnFetch(url, Now))
  /\ UNCHANGED << otherVars, caches, lifecycleVars >>

NextDocument ==
  \/ DocumentDispatch
  \/ FromCache
  \/ HandlerFetchSettle
  \/ Update

\* an activated worker serving the document, which it revalidates, next to
\* requests it answers Cache-First
SpecDocument == InitServe /\ [][NextDocument]_vars

NextRace ==
  \/ RaceDispatch
  \/ FromCache
  \/ RankedFetchSettle
  \/ Update

\* an activated worker serving concurrent requests, the order in which their
\* fetches settle being recorded
SpecRace == InitServe /\ [][NextRace]_vars

\* a FetchEvent for the document or the resource, in a run in which cache
\* storage can fail
StorageDispatch ==
  /\ swState = "activated"
  /\ Len(reqs) < MaxStorageRequests
  /\ \E url \in RaceUrls : reqs' = Append(reqs, OnFetch(url, Now))
  /\ UNCHANGED << otherVars, caches, lifecycleVars >>

\* fromCache(request) rejects because caches.open or cache.match failed:
\* the catch of either strategy takes it for the rejection of a miss
FromCacheRejected ==
  /\ \E i \in 1..Len(reqs) :
       /\ reqs[i].pc \in {"cfMatch", "swrMatch"}
       /\ reqs' = [reqs EXCEPT ![i] =
            LET r == [@ EXCEPT !.readFailed = TRUE] IN
            IF @.pc = "cfMatch"
            THEN CacheFirstMatched(r, NoResponse)
            ELSE SwrMatched(r, NoResponse)]
  /\ UNCHANGED << otherVars, caches, lifecycleVars >>

\* mutant: Cache-First answers with the network response although the
\* write failed
UpdateRejectedSwallowed ==
  /\ \E i \in 1..Len(reqs) :
       /\ reqs[i].pc = "cfPut" \/ reqs[i].bg = "put"
       /\ reqs' = [reqs EXCEPT ![i] =
            LET r == [@ EXCEPT !.writeFailed = TRUE] IN
            IF @.pc = "cfPut" THEN Deliver(r, r.netResp, "handlerFetch")
            ELSE [r EXCEPT !.bg = "rejected"]]
  /\ UNCHANGED << otherVars, caches, lifecycleVars >>

\* update(request, response) rejects because caches.open or cache.put
\* failed: Cache-First passes the rejection on to respondWith; in the
\* revalidation it reaches waitUntil only
UpdateRejected ==
  /\ \E i \in 1..Len(reqs) :
       /\ reqs[i].pc = "cfPut" \/ reqs[i].bg = "put"
       /\ reqs' = [reqs EXCEPT ![i] =
            LET r == [@ EXCEPT !.writeFailed = TRUE] IN
            IF @.pc = "cfPut" THEN Fail(r) ELSE [r EXCEPT !.bg = "rejected"]]
  /\ UNCHANGED << otherVars, caches, lifecycleVars >>

NextStorage ==
  \/ StorageDispatch
  \/ FromCache
  \/ FromCacheRejected
  \/ HandlerFetchSettle
  \/ Update
  \/ UpdateRejected

\* an activated worker serving requests while cache storage can fail
SpecStorage == InitServe /\ [][NextStorage]_vars

\* ---------------------------------------------------------------------
\* scripts/db.js: the key-value store of the page
\* ---------------------------------------------------------------------

\* A JSON value: its type, its number (numbers and booleans), its text
\* (strings and member names), its elements (arrays) or members (objects).
J(t, n, s, kids) == [t |-> t, n |-> n, s |-> s, kids |-> kids]

JNull == J("null", 0, "", << >>)

JBool(b) == J("boolean", IF b THEN 1 ELSE 0, "", << >>)

JNum(n) == J("number", n, "", << >>)

JStr(s) == J("string", 0, s, << >>)

JArr(items) == J("array", 0, "", items)

JMember(name, v) == J("member", 0, name, << v >>)

JObj(members) == J("object", 0, "", members)

\* undefined: what a request for a missing key gives and what resolve()
\* resolves with
JUndefined == J("undefined", 0, "", << >>)

\* JSON.parse threw
JSyntaxError == J("SyntaxError", 0, "", << >>)

\* the numbers and the strings of the stored values
Numbers == { -1, 0 }

Strings == { "", "\"" }

Scalars ==
  {JNull, JBool(TRUE), JBool(FALSE)}
    \cup { JNum(n) : n \in Numbers } \cup { JStr(x) : x \in Strings }

\* arrays and objects over the values of V
Composites(V) ==
  {JArr(<< >>), JObj(<< >>)}
    \cup { JArr(<< v >>) : v \in V }
    \cup { JArr(<< JNull, v >>) : v \in V }
    \cup { JObj(<< JMember("EUR", v) >>) : v \in V }
    \cup { JObj(<< JMember("", JNull), JMember("USD", v) >>) : v \in V }

\* the values the page stores: settings (booleans), currency codes
\* (strings), amounts (numbers), the rates and the last trip (objects)
JsonValues ==
  Scalars \cup Composites(Scalars)
    \cup { JArr(<< v >>) : v \in Composites(Scalars) }
    \cup { JObj(<< JMember("rates", v) >>) : v \in Composites(Scalars) }

\* text is a sequence of tokens: punctuation, literals, and the characters
\* between two quotes
Quote == "\""

\* mutant: the characters of a string are written as they are
EscapeNothing(x) == x

\* JSON.stringify escapes the quote inside a string
Escape(x) == IF x = Quote THEN "\\\"" ELSE x

Unescape(tok) == IF tok = "\\\"" THEN Quote ELSE tok

Quoted(x) == << Quote >> \o (IF x = "" THEN << >> ELSE << Escape(x) >>) \o << Quote >>

RECURSIVE JsonStringify(_), StringifyItems(_), StringifyMembers(_)

\* JSON.stringify(value)
JsonStringify(v) ==
  CASE v.t = "null"    -> << "null" >>
    [] v.t = "boolean" -> << IF v.n = 1 THEN "true" ELSE "false" >>
    [] v.t = "number"  -> << ToString(v.n) >>
    [] v.t = "string"  -> Quoted(v.s)
    [] v.t = "array"   -> << "[" >> \o StringifyItems(v.kids) \o << "]" >>
    [] v.t = "object"  -> << "{" >> \o StringifyMembers(v.kids) \o << "}" >>

StringifyItems(items) ==
  IF items = << >> THEN << >>
  ELSE JsonStringify(Head(items))
         \o (IF Len(items) > 1 THEN << "," >> \o StringifyItems(Tail(items))
             ELSE << >>)

StringifyMembers(members) ==
  IF members = << >> THEN << >>
  ELSE Quoted(Head(members).s) \o << ":" >>
         \o JsonStringify(Head(members).kids[1])
         \o (IF Len(members) > 1 THEN << "," >> \o StringifyMembers(Tail(members))
             ELSE << >>)

\* the result of parsing a prefix of a text
Parsed(v, rest) == [ok |-> TRUE, value |-> v, rest |-> rest]

Unparsed == [ok |-> FALSE, value |-> JSyntaxError, rest |-> << >>]

IsNumberToken(tok) == \E n \in Numbers : ToString(n) = tok

NumberOf(tok) == CHOOSE n \in Numbers : ToString(n) = tok

\* a string literal at the head of toks
ParseString(toks) ==
  IF Len(toks) >= 2 /\ toks[1] = Quote /\ toks[2] = Quote
  THEN Parsed(JStr(""), SubSeq(toks, 3, Len(toks)))
  ELSE IF Len(toks) >= 3 /\ toks[1] = Quote /\ toks[3] = Quote
  THEN Parsed(JStr(Unescape(toks[2])), SubSeq(toks, 4, Len(toks)))
  ELSE Unparsed

RECURSIVE ParseValue(_), ParseItems(_, _), ParseMembers(_, _)

\* a value at the head of toks
ParseValue(toks) ==
  IF toks = << >> THEN Unparsed
  ELSE LET h == Head(toks)
           rest == Tail(toks) IN
       CASE h = "null"  -> Parsed(JNull, rest)
         [] h = "true"  -> Parsed(JBool(TRUE), rest)
         [] h = "false" -> Parsed(JBool(FALSE), rest)
         [] h = Quote   -> ParseString(toks)
         [] h = "["     -> IF rest # << >> /\ Head(rest) = "]"
                           THEN Parsed(JArr(<< >>), Tail(rest))
                           ELSE ParseItems(rest, << >>)
         [] h = "{"     -> IF rest # << >> /\ Head(rest) = "}"
                           THEN Parsed(JObj(<< >>), Tail(rest))
                           ELSE ParseMembers(rest, << >>)
         [] OTHER       -> IF IsNumberToken(h) THEN Parsed(JNum(NumberOf(h)), rest)
                           ELSE Unparsed

\* the elements of an array after "[" or ","
ParseItems(toks, acc) ==
  LET item == ParseValue(toks) IN
  IF ~item.ok \/ item.rest = << >> THEN Unparsed
  ELSE IF Head(item.rest) = ","
  THEN ParseItems(Tail(item.rest), Append(acc, item.value))
  ELSE IF Head(item.rest) = "]"
  THEN Parsed(JArr(Append(acc, item.value)), Tail(item.rest))
  ELSE Unparsed

\* the members of an object after "{" or ","
ParseMembers(toks, acc) ==
  LET name == ParseString(toks) IN
  IF ~name.ok \/ name.rest = << >> \/ Head(name.rest) # ":" THEN Unparsed
  ELSE LET member == ParseValue(Tail(name.rest)) IN
       IF ~member.ok \/ member.rest = << >> THEN Unparsed
       ELSE LET all == Append(acc, JMember(name.value.s, member.value)) IN
            IF Head(member.rest) = ","
            THEN ParseMembers(Tail(member.rest), all)
            ELSE IF Head(member.rest) = "}"
            THEN Parsed(JObj(all), Tail(member.rest))
            ELSE Unparsed

\* JSON.parse(text)
JsonParse(text) ==
  LET r == ParseValue(text) IN
  IF r.ok /\ r.rest = << >> THEN r.value ELSE JSyntaxError

\* the keys the page uses
DbKeys == { "rates", "geo.enabled" }

\* localStorage.getItem(key): the text, or null
GetItem(store, key) ==
  IF key \in DOMAIN store THEN [null |-> FALSE, text |-> store[key]]
  ELSE [null |-> TRUE, text |-> << >>]

\* localStorage.setItem(key, text)
SetItem(store, key, text) ==
  [k \in DOMAIN store \cup {key} |-> IF k = key THEN text ELSE store[k]]

\* JSON.parse(item): null is converted to the text "null" first
JsonParseItem(item) == JsonParse(IF item.null THEN << "null" >> ELSE item.text)

\* mutant: a record that exists is kept (objectStore.add)
IdbPutAdds(store, key, value) ==
  [k \in DOMAIN store \cup {key} |-> IF k \in DOMAIN store THEN store[k] ELSE value]

\* objectStore.put(value, key): the record holds a structured clone
IdbPut(store, key, value) ==
  [k \in DOMAIN store \cup {key} |-> IF k = key THEN value ELSE store[k]]

\* objectStore.get(key): the value of the record, undefined without a record
IdbGet(store, key) == IF key \in DOMAIN store THEN store[key] ELSE JUndefined

\* how many saves have reached the backing store
StoreEpoch ==
  Cardinality({ i \in 1..Len(ops) :
                  ops[i].fn = "saveToStore" /\ ops[i].pc = "settled" })

\* how many transactions on 'kv' have been created
Transactions == Cardinality({ i \in 1..Len(ops) : ops[i].txn > 0 })

\* A call of saveToStore or loadFromStore and the promise it returned.
\*   fn, key, value  the call (value is undefined for loadFromStore)
\*   pc       "prepareDb": indexedDB.open pending; "request": the put or get
\*            is pending in its transaction; "settled"; "hung": nothing is
\*            left that could settle the promise
\*   outcome  "pending", "resolved" or "rejected"
\*   result   what the promise resolved with
\*   error    what it rejected with
\*   txn      rank of its transaction among the transactions created
\*   found    the store held a record for the key when the call read it
\*   callEpoch    saves that had reached the store when it was called
\*   accessEpoch  saves that had reached the store once it accessed it
NewOp(fn, key, value) ==
  [ fn |-> fn, key |-> key, value |-> value, pc |-> "new",
    outcome |-> "pending", result |-> JUndefined, error |-> "",
    txn |-> 0, found |-> FALSE, callEpoch |-> StoreEpoch, accessEpoch |-> 0 ]

Resolve(op, value, epoch) ==
  [op EXCEPT !.pc = "settled", !.outcome = "resolved", !.result = value,
             !.accessEpoch = epoch]

Reject(op, error, epoch) ==
  [op EXCEPT !.pc = "settled", !.outcome = "rejected", !.error = error,
             !.accessEpoch = epoch]

\* the else branch of loadFromStore:
\* resolve(JSON.parse(localStorage.getItem(key))); an exception thrown in the
\* executor rejects the promise
LoadFallback(op, store, epoch) ==
  LET value == JsonParseItem(GetItem(store, op.key))
      read == [op EXCEPT !.found = op.key \in DOMAIN store] IN
  IF value = JSyntaxError THEN Reject(read, "SyntaxError", epoch)
  ELSE Resolve(read, value, epoch)

\* get.onsuccess of loadFromStore
LoadSuccess(op, store, epoch) ==
  LET read == [op EXCEPT !.found = op.key \in DOMAIN store] IN
  IF IdbGet(store, op.key) # JUndefined
  THEN Resolve(read, IdbGet(store, op.key), epoch)
  ELSE Reject(read, "Key not found", epoch)

\* the values a further save in a run stores: the values stored before, or
\* null
SaveValues ==
  IF \E i \in 1..Len(ops) : ops[i].fn = "saveToStore"
  THEN { ops[i].value : i \in { j \in 1..Len(ops) : ops[j].fn = "saveToStore" } }
         \cup {JNull}
  ELSE JsonValues

\* loadFromStore(key) up to its return
LoadCalled(key) ==
  LET op == NewOp("loadFromStore", key, JUndefined) IN
  IF idb # "absent" THEN [op EXCEPT !.pc = "prepareDb"]
  ELSE LoadFallback(op, ls, StoreEpoch)

\* saveToStore(key, value) up to its return
SaveCall(key, value) ==
  LET op == NewOp("saveToStore", key, value) IN
  IF idb # "absent"
  THEN /\ ops' = Append(ops, [op EXCEPT !.pc = "prepareDb"])
       /\ UNCHANGED << kv, ls >>
  ELSE /\ ls' = SetItem(ls, key, JsonStringify(value))
       /\ ops' = Append(ops, Resolve(op, JUndefined, StoreEpoch + 1))
       /\ UNCHANGED kv

\* saveToStore(key, value) for one of the given values, while fewer than
\* limit calls have been made
Save(limit, values) ==
  /\ Len(ops) < limit
  /\ \E key \in DbKeys, value \in values : SaveCall(key, value)
  /\ UNCHANGED << clientVars, taskVars, pageVars, idb, caches, reqs, lifecycleVars >>

SaveToStore == Save(MaxDbOps, SaveValues)

\* loadFromStore(key) up to its return, while fewer than limit calls have
\* been made
Load(limit) ==
  /\ Len(ops) < limit
  /\ \E key \in DbKeys : ops' = Append(ops, LoadCalled(key))
  /\ UNCHANGED << clientVars, taskVars, pageVars, idb, kv, ls, caches, reqs, lifecycleVars >>

LoadFromStore == Load(MaxDbOps)

\* mutant: the open requests succeed in any order
PrepareDbResolvedAnyOrder ==
  /\ idb = "available"
  /\ \E i \in 1..Len(ops) :
       /\ ops[i].pc = "prepareDb"
       /\ ops' = [ops EXCEPT ![i] = [@ EXCEPT !.pc = "request",
                                              !.txn = Transactions + 1]]
  /\ UNCHANGED << clientVars, taskVars, pageVars, idb, kv, ls, caches, reqs, lifecycleVars >>

\* prepareDb_: req.onsuccess; the caller creates its transaction and issues
\* its request. The open requests for one database are served in the order
\* in which they were made.
PrepareDbResolved ==
  /\ idb = "available"
  /\ \E i \in 1..Len(ops) :
       /\ ops[i].pc = "prepareDb"
       /\ \A j \in 1..(i - 1) : ops[j].pc # "prepareDb"
       /\ ops' = [ops EXCEPT ![i] = [@ EXCEPT !.pc = "request",
                                              !.txn = Transactions + 1]]
  /\ UNCHANGED << clientVars, taskVars, pageVars, idb, kv, ls, caches, reqs, lifecycleVars >>

\* prepareDb_: req.onerror; dbPromise rejects and the caller, which gave
\* then() no rejection handler, never settles its promise
PrepareDbRejected ==
  /\ idb = "failing"
  /\ \E i \in 1..Len(ops) :
       /\ ops[i].pc = "prepareDb"
       /\ ops' = [ops EXCEPT ![i] = [@ EXCEPT !.pc = "hung"]]
  /\ UNCHANGED << clientVars, taskVars, pageVars, idb, kv, ls, caches, reqs, lifecycleVars >>

\* the transactions that must finish before the one of ops[i] starts: those
\* created earlier, unless both only read
Blocking(i) ==
  { j \in 1..Len(ops) :
      /\ ops[j].pc = "request"
      /\ ops[j].txn < ops[i].txn
      /\ "saveToStore" \in {ops[i].fn, ops[j].fn} }

\* put.onsuccess of saveToStore, get.onsuccess of loadFromStore
RequestSuccess ==
  /\ \E i \in 1..Len(ops) :
       /\ ops[i].pc = "request"
       /\ Blocking(i) = {}
       /\ IF ops[i].fn = "saveToStore"
          THEN /\ kv' = IdbPut(kv, ops[i].key, ops[i].value)
               /\ ops' = [ops EXCEPT ![i] = Resolve(@, JUndefined, StoreEpoch + 1)]
          ELSE /\ ops' = [ops EXCEPT ![i] = LoadSuccess(@, kv, StoreEpoch)]
               /\ UNCHANGED kv
  /\ UNCHANGED << clientVars, taskVars, pageVars, idb, ls, caches, reqs, lifecycleVars >>

\* what earlier sessions of the page left in the backing store in use
PriorRecords(keys) ==
  /\ kv = [k \in (IF idb = "absent" THEN {} ELSE keys) |-> JNull]
  /\ ls = [k \in (IF idb = "absent" THEN keys ELSE {}) |-> JsonStringify(JNull)]

\* The page starts, with or without IndexedDB, on the store earlier sessions
\* left; the worker is activated and receives no event.
InitDb ==
  /\ swState = "activated"
  /\ caches = (APP_CACHE :> Precached)
  /\ installPc = "idle"
  /\ installFetch = Unfetched
  /\ installPrior = {}
  /\ installResult = "pending"
  /\ activatePc = "idle"
  /\ activateKeys = {}
  /\ pendingDeletes = {}
  /\ deleteIssued = {}
  /\ activateResult = "pending"
  /\ reqs = << >>
  /\ idb \in {"absent", "available", "failing"}
  /\ \E keys \in {{}, {"rates"}} : PriorRecords(keys)
  /\ ops = << >>
  /\ ClientIdle
  /\ TaskIdle
  /\ PageIdle

NextDb ==
  \/ SaveToStore
  \/ LoadFromStore
  \/ PrepareDbResolved
  \/ PrepareDbRejected
  \/ RequestSuccess

\* the page using its key-value store
SpecDb == InitDb /\ [][NextDb]_vars

\* two rates documents
ConcurrentValues ==
  { JObj(<< JMember("USD", JNum(0)) >>), JObj(<< JMember("USD", JNum(-1)) >>) }

\* saveToStore and loadFromStore called while earlier calls are pending
ConcurrentSave == Save(MaxConcurrentOps, ConcurrentValues)

ConcurrentLoad == Load(MaxConcurrentOps)

NextDbConcurrent ==
  \/ ConcurrentSave
  \/ ConcurrentLoad
  \/ PrepareDbResolved
  \/ PrepareDbRejected
  \/ RequestSuccess

\* the page making several calls on its key-value store at once
SpecDbConcurrent == InitDb /\ [][NextDbConcurrent]_vars

\* A new worker is installed and activated for an origin whose key-value
\* store holds records of earlier sessions.
InitRotation ==
  /\ WorkerInit
  /\ idb \in {"absent", "available"}
  /\ \E keys \in {{"rates"}, DbKeys} : PriorRecords(keys)
  /\ ops = << >>
  /\ ClientIdle
  /\ TaskIdle
  /\ PageIdle

NextRotation ==
  \/ InstallStart
  \/ InstallOpen
  \/ InstallFetchSettle
  \/ InstallReject
  \/ InstallCommit
  \/ ActivateStart
  \/ ActivateKeys
  \/ DeleteDone
  \/ ActivateResolve

\* installation and activation next to a populated key-value store
SpecRotation == InitRotation /\ [][NextRotation]_vars

\* ---------------------------------------------------------------------
\* scripts/promise-utils.js: fetchFile and fetchJson
\* ---------------------------------------------------------------------

\* the timeout _fetchRates passes, in milliseconds
ACCEPTABLE_TIMEOUT == 5000

\* the timeouts callers pass: the default (none) and that of _fetchRates
Timeouts == { 0, ACCEPTABLE_TIMEOUT }

\* how long the server takes, in milliseconds: less than the timeout of
\* _fetchRates, exactly as long, and longer
Latencies == { 100, ACCEPTABLE_TIMEOUT, 9000 }

\* the errorString _fetchRates passes
MESSAGE == "Error getting rates."

\* the errorString of a call that passes none
DefaultErrorString == "Error fetching data."

\* the statuses a server answers with
Statuses == { 200, 201, 404 }

\* the reason phrase that goes with a status
ReasonPhrase(status) ==
  CASE status = 200 -> "OK"
    [] status = 201 -> "Created"
    [] status = 404 -> "Not Found"

\* the bodies a server answers with: a rates document, the literal null, a
\* document cut short, nothing
Bodies ==
  { JsonStringify(JObj(<< JMember("USD", JNum(-1)) >>)),
    JsonStringify(JNull),
    << "{", Quote, "USD", Quote, ":" >>,
    << >> }

\* what happens to a request on the network: the server answers after
\* latency milliseconds, or after that time the connection fails or the
\* request is aborted
Exchanges ==
  { [ kind |-> "response", status |-> st, statusText |-> tx, text |-> b,
      latency |-> l ] :
      st \in Statuses, tx \in {"phrase", ""}, b \in Bodies, l \in Latencies }
    \cup [ kind : {"error", "abort"}, status : {0}, statusText : {""},
           text : {<< >>}, latency : Latencies ]

\* req.statusText: the reason phrase of the response, empty when the
\* protocol carries none (HTTP/2)
StatusText(exchange) ==
  IF exchange.statusText = "" THEN "" ELSE ReasonPhrase(exchange.status)

\* req.response: with responseType 'json' the parsed body, null when the
\* body does not parse; with responseType '' nothing is parsed
XhrResponse(responseType, text) ==
  IF responseType # "json" THEN JUndefined
  ELSE IF JsonParse(text) = JSyntaxError THEN JNull ELSE JsonParse(text)

\* A call of fetchFile and the XMLHttpRequest it made.
\*   fn            "fetchFile" or "fetchJson"
\*   errorString, timeout, responseType   the arguments
\*   exchange      what the network does with the request
\*   readyState    "opened" after send(), "done" after a terminal event
\*   event         the terminal event dispatched
\*   events        how many terminal events were dispatched
\*   timer         the timeout of the request is running
\*   outcome       "pending", "resolved" or "rejected"
\*   result, text  what the promise resolved with: req.response, which is a
\*                 parsed value (responseType 'json') or the body as text
\*   error         the message of the Error it rejected with
\*   settleCalls   calls of resolve and reject
NewXhr(fn, errorString, timeout, responseType, exchange) ==
  [ fn |-> fn, errorString |-> errorString, timeout |-> timeout,
    responseType |-> responseType, exchange |-> exchange,
    readyState |-> "opened", event |-> "none", events |-> 0,
    timer |-> FALSE,
    outcome |-> "pending", result |-> JUndefined, text |-> << >>,
    error |-> "", settleCalls |-> 0 ]

\* resolve(value): settles a pending promise, does nothing otherwise
XhrResolve(x, value, text) ==
  IF x.outcome = "pending"
  THEN [x EXCEPT !.outcome = "resolved", !.result = value, !.text = text,
                 !.settleCalls = @ + 1]
  ELSE [x EXCEPT !.settleCalls = @ + 1]

\* reject(new Error(message))
XhrReject(x, message) ==
  IF x.outcome = "pending"
  THEN [x EXCEPT !.outcome = "rejected", !.error = message,
                 !.settleCalls = @ + 1]
  ELSE [x EXCEPT !.settleCalls = @ + 1]

\* mutant: a timeout of 0 expires at once
TimeoutArmedAlways(timeout) == TRUE

\* req.timeout = timeout: 0 means the request has no timeout
TimeoutArmed(timeout) == timeout > 0

\* fetchFile(url, errorString, timeout, responseType) up to its return
Sent(fn, errorString, timeout, responseType, exchange) ==
  [ NewXhr(fn, errorString, timeout, responseType, exchange)
      EXCEPT !.timer = TimeoutArmed(timeout) ]

\* mutant: every 2xx status is a success
LoadListener2xx(x) ==
  IF x.exchange.status \in 200..299
  THEN XhrResolve(x, XhrResponse(x.responseType, x.exchange.text),
                  IF x.responseType = "json" THEN << >> ELSE x.exchange.text)
  ELSE XhrReject(x, x.errorString \o " HTTP "
                      \o StatusText(x.exchange) \o ".")

\* the 'load' listener
LoadListener(x) ==
  IF x.exchange.status = 200
  THEN XhrResolve(x, XhrResponse(x.responseType, x.exchange.text),
                  IF x.responseType = "json" THEN << >> ELSE x.exchange.text)
  ELSE XhrReject(x, x.errorString \o " HTTP "
                      \o StatusText(x.exchange) \o ".")

\* errorHandler, the 'error' and 'abort' listener
ErrorHandler(x) == XhrReject(x, x.errorString)

\* the 'timeout' listener
TimeoutListener(x) == XhrReject(x, x.errorString \o " Request timed out.")

\* mutant: events keep arriving after the request is done
DispatchableAlways(x) == TRUE

\* a request gets its terminal event while it is not done
Dispatchable(x) == x.readyState # "done"

\* the exchange ends no later than the timeout of the request
InTime(x) == ~TimeoutArmed(x.timeout) \/ x.exchange.latency <= x.timeout

\* the timeout of the request expires no later than the exchange ends
Expires(x) == TimeoutArmed(x.timeout) /\ x.timeout <= x.exchange.latency

\* the request is done after the terminal event ev
Done(x, ev) ==
  [x EXCEPT !.readyState = "done", !.event = ev, !.events = @ + 1,
            !.timer = FALSE]

\* fetchFile(url, errorString, timeout) with the default responseType
FetchFile ==
  /\ Len(xhrs) < MaxXhrs
  /\ \E timeout \in Timeouts, exchange \in Exchanges :
       xhrs' = Append(xhrs, Sent("fetchFile", DefaultErrorString, timeout, "", exchange))
  /\ UNCHANGED << dbVars, taskVars, pageVars, caches, reqs, lifecycleVars >>

\* fetchJson(url, errorString, timeout)
FetchJson ==
  /\ Len(xhrs) < MaxXhrs
  /\ \E timeout \in Timeouts, exchange \in Exchanges :
       xhrs' = Append(xhrs, Sent("fetchJson", MESSAGE, timeout, "json", exchange))
  /\ UNCHANGED << dbVars, taskVars, pageVars, caches, reqs, lifecycleVars >>

\* the request completes: 'load'
XhrLoad ==
  /\ \E i \in 1..Len(xhrs) :
       /\ Dispatchable(xhrs[i]) /\ InTime(xhrs[i])
       /\ xhrs[i].exchange.kind = "response"
       /\ xhrs' = [xhrs EXCEPT ![i] = LoadListener(Done(@, "load"))]
  /\ UNCHANGED << dbVars, taskVars, pageVars, caches, reqs, lifecycleVars >>

\* the connection fails: 'error'
XhrError ==
  /\ \E i \in 1..Len(xhrs) :
       /\ Dispatchable(xhrs[i]) /\ InTime(xhrs[i])
       /\ xhrs[i].exchange.kind = "error"
       /\ xhrs' = [xhrs EXCEPT ![i] = ErrorHandler(Done(@, "error"))]
  /\ UNCHANGED << dbVars, taskVars, pageVars, caches, reqs, lifecycleVars >>

\* the request is aborted: 'abort'
XhrAbort ==
  /\ \E i \in 1..Len(xhrs) :
       /\ Dispatchable(xhrs[i]) /\ InTime(xhrs[i])
       /\ xhrs[i].exchange.kind = "abort"
       /\ xhrs' = [xhrs EXCEPT ![i] = ErrorHandler(Done(@, "abort"))]
  /\ UNCHANGED << dbVars, taskVars, pageVars, caches, reqs, lifecycleVars >>

\* the timeout of the request expires: 'timeout'
XhrTimeout ==
  /\ \E i \in 1..Len(xhrs) :
       /\ Dispatchable(xhrs[i]) /\ Expires(xhrs[i])
       /\ xhrs' = [xhrs EXCEPT ![i] = TimeoutListener(Done(@, "timeout"))]
  /\ UNCHANGED << dbVars, taskVars, pageVars, caches, reqs, lifecycleVars >>

\* The page is loaded and has made no request; the worker is activated and
\* receives no event.
InitClient ==
  /\ swState = "activated"
  /\ caches = (APP_CACHE :> Precached)
  /\ installPc = "idle"
  /\ installFetch = Unfetched
  /\ installPrior = {}
  /\ installResult = "pending"
  /\ activatePc = "idle"
  /\ activateKeys = {}
  /\ pendingDeletes = {}
  /\ deleteIssued = {}
  /\ activateResult = "pending"
  /\ reqs = << >>
  /\ DbIdle
  /\ ClientIdle
  /\ TaskIdle
  /\ PageIdle

NextClient ==
  \/ FetchFile
  \/ FetchJson
  \/ XhrLoad
  \/ XhrError
  \/ XhrAbort
  \/ XhrTimeout

\* the page using its network client
SpecClient == InitClient /\ [][NextClient]_vars

\* ---------------------------------------------------------------------
\* sw.js: the sync handler
\* ---------------------------------------------------------------------

\* the tags sync events carry: that of the rate task and another one
SyncTags == { "rates", "other" }

\* what fetch(RATE_URL) meets: a network error, or a response of any status
\* whose body is a rates document or a document cut short
SyncExchanges ==
  [ kind : {"response"}, status : {200, 404},
    text : { JsonStringify(JObj(<< JMember("USD", JNum(-1)) >>)),
             << "{", Quote, "USD", Quote, ":" >> } ]
    \cup [ kind : {"error"}, status : {0}, text : {<< >>} ]

\* A sync event and the run of the rate task it started.
\*   tag        event.tag
\*   exchange   what the fetch meets
\*   pc         "fetching" fetch(RATE_URL) is pending; "reading"
\*              response.json() is pending; "opening" idb.open is
\*              pending; "writing" the put is pending; "finished" nothing
\*              is pending; "ignored" the handler did nothing
\*   json       the parsed document
\*   waitUntil  the promise handed to event.waitUntil: "none" (not
\*              called), "pending", "resolved" or "rejected"
\*   notified   registration.showNotification was called
\*   stored     the put of this run has completed
\*   fetches    how often the run has called fetch(RATE_URL)
NewSync(tag, exchange) ==
  [ tag |-> tag, exchange |-> exchange,
    pc |-> IF tag = "rates" THEN "fetching" ELSE "ignored",
    json |-> JUndefined,
    waitUntil |-> IF tag = "rates" THEN "pending" ELSE "none",
    notified |-> FALSE, stored |-> FALSE,
    fetches |-> IF tag = "rates" THEN 1 ELSE 0 ]

\* the 'sync' listener up to its return
SyncEvent ==
  /\ Len(syncs) < MaxSyncs
  /\ \E tag \in SyncTags, exchange \in SyncExchanges :
       syncs' = Append(syncs, NewSync(tag, exchange))
  /\ UNCHANGED << dbVars, clientVars, pageVars, caches, reqs, lifecycleVars >>

\* mutant: a network error starts the fetch again
SyncFetchSettleRetries ==
  /\ \E i \in 1..Len(syncs) :
       /\ syncs[i].pc = "fetching"
       /\ syncs' = [syncs EXCEPT ![i] =
            IF @.exchange.kind = "response"
            THEN [@ EXCEPT !.pc = "reading"]
            ELSE IF @.fetches < 2
                 THEN [@ EXCEPT !.fetches = @ + 1]
                 ELSE [@ EXCEPT !.pc = "finished", !.waitUntil = "rejected"]]
  /\ UNCHANGED << dbVars, clientVars, pageVars, caches, reqs, lifecycleVars >>

\* fetch(RATE_URL) settles: a response of any status resolves it and
\* response.json() starts reading; a network error rejects the chain
SyncFetchSettle ==
  /\ \E i \in 1..Len(syncs) :
       /\ syncs[i].pc = "fetching"
       /\ syncs' = [syncs EXCEPT ![i] =
            IF @.exchange.kind = "response"
            THEN [@ EXCEPT !.pc = "reading"]
            ELSE [@ EXCEPT !.pc = "finished", !.waitUntil = "rejected"]]
  /\ UNCHANGED << dbVars, clientVars, pageVars, caches, reqs, lifecycleVars >>

\* response.json() settles. A body that does not parse rejects the chain.
\* Otherwise the two callbacks run one after the other: the first calls
\* idb.open when self.indexedDB exists and returns, the second calls
\* showNotification, and the chain has resolved.
SyncJsonSettle ==
  /\ \E i \in 1..Len(syncs) :
       /\ syncs[i].pc = "reading"
       /\ LET json == JsonParse(syncs[i].exchange.text)
          IN  syncs' = [syncs EXCEPT ![i] =
                IF json = JSyntaxError
                THEN [@ EXCEPT !.pc = "finished", !.waitUntil = "rejected"]
                ELSE [@ EXCEPT !.json = json,
                               !.pc = IF idb # "absent" THEN "opening"
                                      ELSE "finished",
                               !.notified = TRUE,
                               !.waitUntil = "resolved"]]
  /\ UNCHANGED << dbVars, clientVars, pageVars, caches, reqs, lifecycleVars >>

\* req.onsuccess: the put is requested in a readwrite transaction on 'kv'
SyncOpenSuccess ==
  /\ idb = "available"
  /\ \E i \in 1..Len(syncs) :
       /\ syncs[i].pc = "opening"
       /\ syncs' = [syncs EXCEPT ![i].pc = "writing"]
  /\ UNCHANGED << dbVars, clientVars, pageVars, caches, reqs, lifecycleVars >>

\* the open request fails: it has no error handler
SyncOpenError ==
  /\ idb = "failing"
  /\ \E i \in 1..Len(syncs) :
       /\ syncs[i].pc = "opening"
       /\ syncs' = [syncs EXCEPT ![i].pc = "finished"]
  /\ UNCHANGED << dbVars, clientVars, pageVars, caches, reqs, lifecycleVars >>

\* put(json, 'rates') succeeds
SyncPutSuccess ==
  /\ \E i \in 1..Len(syncs) :
       /\ syncs[i].pc = "writing"
       /\ kv' = IdbPut(kv, "rates", syncs[i].json)
       /\ syncs' = [syncs EXCEPT ![i].pc = "finished", ![i].stored = TRUE]
  /\ UNCHANGED << clientVars, pageVars, idb, ls, ops, caches, reqs, lifecycleVars >>

\* The worker is activated, with or without IndexedDB, on the store the
\* page left; the page is idle.
InitSync ==
  /\ swState = "activated"
  /\ caches = (APP_CACHE :> Precached)
  /\ installPc = "idle"
  /\ installFetch = Unfetched
  /\ installPrior = {}
  /\ installResult = "pending"
  /\ activatePc = "idle"
  /\ activateKeys = {}
  /\ pendingDeletes = {}
  /\ deleteIssued = {}
  /\ activateResult = "pending"
  /\ reqs = << >>
  /\ idb \in {"absent", "available", "failing"}
  /\ \E keys \in {{}, {"rates"}} : PriorRecords(keys)
  /\ ops = << >>
  /\ ClientIdle
  /\ TaskIdle
  /\ PageIdle

NextSync ==
  \/ SyncEvent
  \/ SyncFetchSettle
  \/ SyncJsonSettle
  \/ SyncOpenSuccess
  \/ SyncOpenError
  \/ SyncPutSuccess

\* the worker running its deferred task
SpecSync == InitSync /\ [][NextSync]_vars

\* ---------------------------------------------------------------------
\* scripts/model.js: ModelEntry
\* ---------------------------------------------------------------------

\* the functions attached as listeners: they record what they are called
\* with and touch nothing else
Listeners == { "f", "g" }

\* the values assigned
EntryValues == { JBool(TRUE), JBool(FALSE) }

\* new ModelEntry(name): _value = null, _listeners = []
\*   value      _value
\*   listeners  _listeners
\*   calls      the listener invocations of the last assignment, in order
\*   op, arg    the last operation on the entry and its argument
\*   before     _listeners before the last operation
\*   detached   the listeners passed to unlisten since they were last
\*              passed to listen
NewModelEntry ==
  [ value |-> JNull, listeners |-> << >>, calls |-> << >>,
    op |-> "new", arg |-> JNull, before |-> << >>, detached |-> {} ]

\* a listener, on the record of the last operation
ListenerArg(l) == JStr(l)

\* listener(this._value)
Call(l, v) == [listener |-> l, value |-> v]

RECURSIVE Invoke(_, _, _)
\* for (const listener of this._listeners) listener(this._value), from
\* index i on
Invoke(listeners, v, i) ==
  IF i > Len(listeners) THEN << >>
  ELSE << Call(listeners[i], v) >> \o Invoke(listeners, v, i + 1)

\* set value(val)
SetValue(e, val) ==
  [e EXCEPT !.value = val, !.calls = Invoke(e.listeners, val, 1),
            !.op = "set", !.arg = val, !.before = e.listeners]

\* listen(listener): this._listeners.push(listener)
Listen(e, l) ==
  [e EXCEPT !.listeners = Append(@, l),
            !.op = "listen", !.arg = ListenerArg(l), !.before = e.listeners,
            !.detached = @ \ {l}]

\* this._listeners.indexOf(listener), counted from 1; 0 when absent
IndexOf(listeners, l) ==
  IF \E k \in 1..Len(listeners) : listeners[k] = l
  THEN CHOOSE k \in 1..Len(listeners) :
         listeners[k] = l /\ \A j \in 1..(k - 1) : listeners[j] # l
  ELSE 0

\* this._listeners.splice(index, 1)
Splice(listeners, index) ==
  SubSeq(listeners, 1, index - 1) \o SubSeq(listeners, index + 1, Len(listeners))

\* mutant: every attachment of the listener is removed
UnlistenEvery(e, l) ==
  [e EXCEPT !.listeners = SelectSeq(@, LAMBDA x : x # l),
            !.op = "unlisten", !.arg = ListenerArg(l), !.before = e.listeners,
            !.detached = @ \cup {l}]

\* unlisten(listener)
Unlisten(e, l) ==
  LET index == IndexOf(e.listeners, l) IN
  [e EXCEPT !.listeners = IF index > 0 THEN Splice(@, index) ELSE @,
            !.op = "unlisten", !.arg = ListenerArg(l), !.before = e.listeners,
            !.detached = @ \cup {l}]

\* entry.value = val
EntryAssign ==
  /\ \E name \in DOMAIN entries, val \in EntryValues :
       entries' = [entries EXCEPT ![name] = SetValue(@, val)]
  /\ UNCHANGED << dbVars, clientVars, taskVars, app, caches, reqs, lifecycleVars >>

\* entry.listen(listener)
EntryListen ==
  /\ \E name \in DOMAIN entries, l \in Listeners :
       /\ Len(entries[name].listeners) < MaxListeners
       /\ entries' = [entries EXCEPT ![name] = Listen(@, l)]
  /\ UNCHANGED << dbVars, clientVars, taskVars, app, caches, reqs, lifecycleVars >>

\* entry.unlisten(listener)
EntryUnlisten ==
  /\ \E name \in DOMAIN entries, l \in Listeners :
       entries' = [entries EXCEPT ![name] = Unlisten(@, l)]
  /\ UNCHANGED << dbVars, clientVars, taskVars, app, caches, reqs, lifecycleVars >>

\* The page has constructed a ModelEntry and nothing else; the worker is
\* activated and receives no event.
InitModel ==
  /\ swState = "activated"
  /\ caches = (APP_CACHE :> Precached)
  /\ installPc = "idle"
  /\ installFetch = Unfetched
  /\ installPrior = {}
  /\ installResult = "pending"
  /\ activatePc = "idle"
  /\ activateKeys = {}
  /\ pendingDeletes = {}
  /\ deleteIssued = {}
  /\ activateResult = "pending"
  /\ reqs = << >>
  /\ DbIdle
  /\ ClientIdle
  /\ TaskIdle
  /\ entries = ("home.amount" :> NewModelEntry)
  /\ app = AppOff

NextModel ==
  \/ EntryAssign
  \/ EntryListen
  \/ EntryUnlisten

\* a ModelEntry in use
SpecModel == InitModel /\ [][NextModel]_vars

\* ---------------------------------------------------------------------
\* App: the model entries that are kept in the key-value store
\* ---------------------------------------------------------------------

\* two of the persisted entries, a currency code and a setting
PersistedEntries == { "home.code", "geo.enabled" }

\* the key the save listener of an entry passes to Db.saveToStore
StoreKey(name) ==
  CASE name = "home.code"   -> "home"
    [] name = "geo.enabled" -> "geo.enabled"

\* the save listener of an entry: (value) => Db.saveToStore(key, value)
SaveListener(name) == "save:" \o StoreKey(name)

\* the values the page assigns to an entry
ValuesOf(name) ==
  IF name = "home.code" THEN { JStr(""), JStr(Quote) } ELSE EntryValues

\* entry.value = val on an entry that has its save listener: the setter
\* runs the listener, which calls Db.saveToStore(key, val)
PersistAssign ==
  /\ Len(ops) < MaxConcurrentOps
  /\ \E name \in DOMAIN entries : \E val \in ValuesOf(name) :
       LET e == SetValue(entries[name], val) IN
       /\ entries' = [entries EXCEPT ![name] = e]
       /\ e.calls = << Call(SaveListener(name), val) >>
       /\ SaveCall(StoreKey(name), val)
  /\ UNCHANGED << clientVars, taskVars, app, idb, caches, reqs, lifecycleVars >>

\* The page has constructed its entries and attached their save listeners,
\* on an empty store with or without IndexedDB.
InitPersist ==
  /\ swState = "activated"
  /\ caches = (APP_CACHE :> Precached)
  /\ installPc = "idle"
  /\ installFetch = Unfetched
  /\ installPrior = {}
  /\ installResult = "pending"
  /\ activatePc = "idle"
  /\ activateKeys = {}
  /\ pendingDeletes = {}
  /\ deleteIssued = {}
  /\ activateResult = "pending"
  /\ reqs = << >>
  /\ idb \in {"absent", "available", "failing"}
  /\ PriorRecords({})
  /\ ops = << >>
  /\ ClientIdle
  /\ TaskIdle
  /\ entries = [name \in PersistedEntries |->
                  Listen(NewModelEntry, SaveListener(name))]
  /\ app = AppOff

NextPersist ==
  \/ PersistAssign
  \/ PrepareDbResolved
  \/ PrepareDbRejected
  \/ RequestSuccess

\* the page changing the entries it keeps in the store
SpecPersist == InitPersist /\ [][NextPersist]_vars

\* ---------------------------------------------------------------------
\* App: rates and booting
\* ---------------------------------------------------------------------

\* the rates document in the store when the page starts, and the one the
\* server has
StoredRates == JObj(<< JMember("date", JStr("2017-01-01")) >>)

FreshRates == JObj(<< JMember("date", JStr("2017-01-02")) >>)

\* a document without a date
UndatedRates == JObj(<< JMember("USD", JNum(-1)) >>)

\* the texts new Date(`${date}T00:00:00`) makes a valid date of
ValidDates == { "2017-01-01", "2017-01-02" }

\* if (value): null, undefined, false, 0 and '' are not taken
Truthy(v) ==
  ~ \/ v.t \in {"null", "undefined"}
    \/ v.t \in {"boolean", "number"} /\ v.n = 0
    \/ v.t = "string" /\ v.s = ""

\* this._rates.date names a valid date
HasValidDate(v) ==
  /\ v.t = "object"
  /\ \E k \in 1..Len(v.kids) :
       /\ v.kids[k].s = "date"
       /\ v.kids[k].kids[1].t = "string"
       /\ v.kids[k].kids[1].s \in ValidDates

\* _updateRateInfo() throws: rateDate.toISOString() on an invalid date
UpdateRateInfoThrows(rates) == Truthy(rates) /\ ~HasValidDate(rates)

\* what a request for '/rates' meets: the fresh document, a document cut
\* short, a document without a date, a 404, no connection, a server that
\* takes longer than ACCEPTABLE_TIMEOUT
RateExchanges ==
  { [ kind |-> "response", status |-> 200, statusText |-> "phrase",
      text |-> JsonStringify(FreshRates), latency |-> 100 ],
    [ kind |-> "response", status |-> 200, statusText |-> "phrase",
      text |-> << "{", Quote, "date", Quote, ":" >>, latency |-> 100 ],
    [ kind |-> "response", status |-> 200, statusText |-> "phrase",
      text |-> JsonStringify(UndatedRates), latency |-> 100 ],
    [ kind |-> "response", status |-> 404, statusText |-> "phrase",
      text |-> JsonStringify(FreshRates), latency |-> 100 ],
    [ kind |-> "error", status |-> 0, statusText |-> "",
      text |-> << >>, latency |-> 100 ],
    [ kind |-> "response", status |-> 200, statusText |-> "phrase",
      text |-> JsonStringify(FreshRates), latency |-> 9000 ] }

\* A call of _fetchRates.
\*   xhr        the request it made, by its place in xhrs
\*   kind       "fallback" (the stored rates could not be loaded), "latest"
\*              (after loadRates) or "update" (the update button)
\*   outcome    of the promise _fetchRates returned
\*   before, after   this._rates before and after its callback ran
\*   stored     its callback called _storeRates()
\*   scheduled  its rejection called _scheduleRateFetch()
NewFetch(xhr, kind) ==
  [ xhr |-> xhr, kind |-> kind, outcome |-> "pending",
    before |-> JUndefined, after |-> JUndefined,
    stored |-> FALSE, scheduled |-> FALSE ]

\* A call of _loadRates: the loadFromStore call it made, by its place in
\* ops, and whether its callback has run; "boot" in _init, "reload" after
\* the registration of the sync
NewLoad(op, kind) == [ op |-> op, kind |-> kind, pc |-> "pending" ]

\* _fetchRates(): PromiseUtils.fetchJson(url, MESSAGE, ACCEPTABLE_TIMEOUT)
FetchRatesCalled(a, kind) ==
  [a EXCEPT !.fetches = Append(@, NewFetch(Len(xhrs) + 1, kind))]

\* _loadRates(): Db.loadFromStore('rates')
LoadRatesCalled(a, kind) ==
  [a EXCEPT !.loads = Append(@, NewLoad(Len(ops) + 1, kind))]

\* the request of a _fetchRates call
RatesRequest(exchange) ==
  Sent("fetchJson", MESSAGE, ACCEPTABLE_TIMEOUT, "json", exchange)

\* the promise _fetchRates returns settles as resolved exactly when
\* fetchJson resolved and the callback did not throw
FetchRatesResolves(x) ==
  x.outcome = "resolved" /\ ~UpdateRateInfoThrows(x.result)

\* the callback of _fetchRates on the settled request x: this._rates =
\* result; this._updateRateInfo(); this._storeRates(); a rejected
\* fetchJson skips it
Fetched(a, k, x) ==
  [a EXCEPT !.rates = IF x.outcome = "resolved" THEN x.result ELSE @,
            !.fetches[k].before = a.rates,
            !.fetches[k].after =
              IF x.outcome = "resolved" THEN x.result ELSE a.rates,
            !.fetches[k].stored = FetchRatesResolves(x),
            !.fetches[k].outcome =
              IF FetchRatesResolves(x) THEN "resolved" ELSE "rejected"]

\* mutant: a rejected rate fetch is dropped
ScheduledDropped(a, k) == a

\* .catch(() => this._scheduleRateFetch()) on the promise of _fetchRates
Scheduled(a, k) ==
  IF a.fetches[k].outcome = "rejected"
  THEN [a EXCEPT !.fetches[k].scheduled = TRUE,
                 !.scheduling = IF a.serviceWorker THEN @ + 1 ELSE @]
  ELSE a

\* _init(): the part that loads what booting waits for
AppInit ==
  /\ app.pc = "constructed"
  /\ ops' = Append(ops, LoadCalled("rates"))
  /\ app' = [LoadRatesCalled(app, "boot") EXCEPT
               !.pc = "init", !.loadRates = "loading", !.styles = "pending",
               !.mappings = "pending", !.common = "pending"]
  /\ UNCHANGED << clientVars, taskVars, entries, idb, kv, ls, caches, reqs,
                  lifecycleVars >>

\* the callback of the _loadRates() call of _init, the handlers of
\* loadRates, and the callback given to after(): stored rates are taken and
\* loadRates resolves; without them _fetchRates() is called in their place;
\* in the first case the latest rates are fetched at once
BootLoadSettle ==
  /\ \E k \in 1..Len(app.loads), exchange \in RateExchanges :
       LET l == app.loads[k]
           op == ops[l.op]
           taken == op.outcome = "resolved" /\ ~UpdateRateInfoThrows(op.result)
           a == [app EXCEPT !.loads[k].pc = "done",
                            !.rates = IF op.outcome = "resolved"
                                      THEN op.result ELSE @,
                            !.loadRates = IF taken THEN "resolved"
                                          ELSE "fetching"] IN
       /\ l.kind = "boot" /\ l.pc = "pending" /\ op.pc = "settled"
       /\ app' = FetchRatesCalled(a, IF taken THEN "latest" ELSE "fallback")
       /\ xhrs' = Append(xhrs, RatesRequest(exchange))
  /\ UNCHANGED << dbVars, taskVars, entries, caches, reqs, lifecycleVars >>

\* the callback of the _loadRates() call made after the registration
ReloadSettle ==
  /\ \E k \in 1..Len(app.loads) :
       LET l == app.loads[k]
           op == ops[l.op] IN
       /\ l.kind = "reload" /\ l.pc = "pending" /\ op.pc = "settled"
       /\ app' = [app EXCEPT !.loads[k].pc = "done",
                             !.rates = IF op.outcome = "resolved"
                                       THEN op.result ELSE @]
  /\ UNCHANGED << dbVars, clientVars, taskVars, entries, caches, reqs,
                  lifecycleVars >>

\* the fetchJson of the _fetchRates() that stands in for the stored rates
\* has settled: its callback runs, loadRates settles with it, and the
\* callback given to after() fetches the latest rates
FallbackFetchSettle ==
  /\ \E k \in 1..Len(app.fetches), exchange \in RateExchanges :
       LET f == app.fetches[k]
           x == xhrs[f.xhr]
           a == Fetched(app, k, x) IN
       /\ f.kind = "fallback" /\ f.outcome = "pending" /\ x.outcome # "pending"
       /\ IF a.fetches[k].stored THEN SaveCall("rates", a.rates)
          ELSE UNCHANGED << ops, kv, ls >>
       /\ app' = FetchRatesCalled(
                   [a EXCEPT !.loadRates = a.fetches[k].outcome], "latest")
       /\ xhrs' = Append(xhrs, RatesRequest(exchange))
  /\ UNCHANGED << taskVars, entries, idb, caches, reqs, lifecycleVars >>

\* the fetchJson of a _fetchRates().catch(() => this._scheduleRateFetch())
\* has settled: its callback runs, and a rejection schedules the sync
LatestFetchSettle ==
  /\ \E k \in 1..Len(app.fetches) :
       LET f == app.fetches[k]
           x == xhrs[f.xhr]
           a == Fetched(app, k, x) IN
       /\ f.kind \in {"latest", "update"}
       /\ f.outcome = "pending" /\ x.outcome # "pending"
       /\ IF a.fetches[k].stored THEN SaveCall("rates", a.rates)
          ELSE UNCHANGED << ops, kv, ls >>
       /\ app' = Scheduled(a, k)
  /\ UNCHANGED << clientVars, taskVars, entries, idb, caches, reqs,
                  lifecycleVars >>

\* navigator.serviceWorker.ready has resolved: sync.register('rates') is
\* called, and when it has resolved, _loadRates()
SyncRegistered ==
  /\ app.scheduling > 0
  /\ ops' = Append(ops, LoadCalled("rates"))
  /\ app' = [LoadRatesCalled(app, "reload") EXCEPT
               !.scheduling = @ - 1, !.registrations = @ + 1]
  /\ UNCHANGED << clientVars, taskVars, entries, idb, kv, ls, caches, reqs,
                  lifecycleVars >>

\* loadExtraCSS settles
StylesSettle ==
  /\ app.styles = "pending"
  /\ \E outcome \in {"resolved", "rejected"} :
       app' = [app EXCEPT !.styles = outcome]
  /\ UNCHANGED << dbVars, clientVars, taskVars, entries, caches, reqs,
                  lifecycleVars >>

\* loadCountryMappings settles
MappingsSettle ==
  /\ app.mappings = "pending"
  /\ \E outcome \in {"resolved", "rejected"} :
       app' = [app EXCEPT !.mappings = outcome]
  /\ UNCHANGED << dbVars, clientVars, taskVars, entries, caches, reqs,
                  lifecycleVars >>

\* loadCommonValues settles: each _loadCommon that rejects is caught and the
\* value gets its default; a store that never answers leaves it pending
CommonSettle ==
  /\ app.common = "pending"
  /\ idb # "failing"
  /\ \E defaulted \in BOOLEAN :
       app' = [app EXCEPT !.common = "resolved", !.defaulted = defaulted]
  /\ UNCHANGED << dbVars, clientVars, taskVars, entries, caches, reqs,
                  lifecycleVars >>

\* mutant: the loading screen is hidden as soon as the rates are there
BootReadyEarly(a) == a.loadRates = "resolved"

\* this._booted = Promise.all([loadExtraCSS, loadCountryMappings,
\* loadCommonValues, loadRates]) has resolved
BootReady(a) ==
  /\ a.styles = "resolved"
  /\ a.mappings = "resolved"
  /\ a.common = "resolved"
  /\ a.loadRates = "resolved"

\* the callbacks of this._booted: history handling, _hideLoadingScreen()
Boot ==
  /\ ~app.booted
  /\ BootReady(app)
  /\ app' = [app EXCEPT !.booted = TRUE]
  /\ UNCHANGED << dbVars, clientVars, taskVars, entries, caches, reqs,
                  lifecycleVars >>

\* a click on the update button:
\* this._booted.then(() => this._fetchRates(true).catch(...))
UpdateClick ==
  /\ app.booted
  /\ app.updates < MaxUpdates
  /\ \E exchange \in RateExchanges :
       /\ xhrs' = Append(xhrs, RatesRequest(exchange))
       /\ app' = [FetchRatesCalled(app, "update") EXCEPT !.updates = @ + 1]
  /\ UNCHANGED << dbVars, taskVars, entries, caches, reqs, lifecycleVars >>

\* the store as an earlier session left it: with the rates or without
AppRecords(stored) ==
  /\ kv = IF stored /\ idb # "absent" THEN ("rates" :> StoredRates)
          ELSE NoRecords
  /\ ls = IF stored /\ idb = "absent"
          THEN ("rates" :> JsonStringify(StoredRates)) ELSE NoRecords

\* The App has been constructed and _init() is about to run, with or
\* without IndexedDB and service workers, on a store with or without rates.
InitApp ==
  /\ swState = "activated"
  /\ caches = (APP_CACHE :> Precached)
  /\ installPc = "idle"
  /\ installFetch = Unfetched
  /\ installPrior = {}
  /\ installResult = "pending"
  /\ activatePc = "idle"
  /\ activateKeys = {}
  /\ pendingDeletes = {}
  /\ deleteIssued = {}
  /\ activateResult = "pending"
  /\ reqs = << >>
  /\ idb \in {"absent", "available", "failing"}
  /\ \E stored \in BOOLEAN : AppRecords(stored)
  /\ ops = << >>
  /\ ClientIdle
  /\ TaskIdle
  /\ entries = NoEntries
  /\ \E sw \in BOOLEAN :
       app = [AppOff EXCEPT !.pc = "constructed", !.serviceWorker = sw]

NextBoot ==
  \/ AppInit
  \/ BootLoadSettle
  \/ ReloadSettle
  \/ FallbackFetchSettle
  \/ LatestFetchSettle
  \/ SyncRegistered
  \/ StylesSettle
  \/ MappingsSettle
  \/ CommonSettle
  \/ Boot
  \/ PrepareDbResolved
  \/ PrepareDbRejected
  \/ RequestSuccess
  \/ XhrLoad
  \/ XhrError
  \/ XhrTimeout

\* the application starting, the update button left alone
SpecBoot == InitApp /\ [][NextBoot]_vars

\* a first visit in a browser with IndexedDB and without service workers
InitRates ==
  /\ InitApp
  /\ idb = "available"
  /\ kv = NoRecords
  /\ ~app.serviceWorker

NextRates ==
  \/ AppInit
  \/ BootLoadSettle
  \/ FallbackFetchSettle
  \/ LatestFetchSettle
  \/ StylesSettle
  \/ MappingsSettle
  \/ CommonSettle
  \/ Boot
  \/ UpdateClick
  \/ PrepareDbResolved
  \/ RequestSuccess
  \/ XhrLoad
  \/ XhrError
  \/ XhrTimeout

\* the application starting on a first visit, and the update button
SpecRates == InitRates /\ [][NextRates]_vars

(* ------------------------------- claims -------------------------------- *)
Requests == 1..Len(reqs)

IsRate(r) == r.url.pathname = RATE_URL

IsRoot(r) == r.url.pathname = "/"

\* a Cache-First invocation answered from the cache
IsCacheFirstHit(r) ==
  CACHE_FIRST \in r.strategies /\ r.pc = "done" /\ r.answeredBy = "cache"

\* C1, as claimed: once the activate handler's promise has resolved, exactly
\* one generation name exists in storage and it is APP_CACHE, whatever names
\* existed before.
C1_ExactlyOneGeneration ==
  activateResult = "resolved" => DOMAIN caches = {APP_CACHE}

\* C1, amended: once the activate handler's promise has resolved, no
\* generation name other than APP_CACHE exists; APP_CACHE exists when it was
\* among the names activation enumerated (activation does not create it).
C1_OnlyCurrentGenerationRemains ==
  activateResult = "resolved" =>
    /\ DOMAIN caches \subseteq {APP_CACHE}
    /\ APP_CACHE \in activateKeys => DOMAIN caches = {APP_CACHE}

\* C1 witness: activation finished after deleting two stale generations
\* beside the current one.
C1_Witness ==
  /\ activateResult = "resolved"
  /\ Cardinality(deleteIssued) >= 2
  /\ APP_CACHE \in activateKeys
  /\ reqs = << >>

C3_InstallPrecachesManifest ==
  (installPc = "done" /\ AddAllReady(installFetch)) =>
    /\ installResult = "resolved"
    /\ swState \in {"installed", "activating", "activated"}
    /\ APP_CACHE \in DOMAIN caches
    /\ \A i \in 1..Len(urlsToCache) :
         /\ Cardinality(CacheMatching(caches[APP_CACHE], SelfUrl(urlsToCache[i]))) = 1
         /\ reqs = << >> =>
              CacheMatch(caches[APP_CACHE], SelfUrl(urlsToCache[i])) = installFetch[i]

\* C3 witness: install resolved over a generation that held an older
\* precache, whose entries were replaced.
C3_Witness ==
  /\ installResult = "resolved"
  /\ installPrior = Precached
  /\ caches[APP_CACHE] # Precached
  /\ Cardinality(caches[APP_CACHE]) = Len(urlsToCache)

\* C4: the activate promise resolves only when every deletion of a stale
\* generation has completed, and no FetchEvent is handled before that.
C4_ActivationBarrier ==
  /\ activateResult = "resolved" =>
       /\ pendingDeletes = {}
       /\ deleteIssued \cap DOMAIN caches = {}
  /\ reqs # << >> =>
       /\ activateResult = "resolved"
       /\ pendingDeletes = {}
       /\ StaleOf(activateKeys) \cap DOMAIN caches = {}

\* C4 witness: a request is being handled after an activation that deleted
\* two stale generations.
C4_Witness ==
  /\ reqs # << >>
  /\ Cardinality(deleteIssued) >= 2
  /\ activateResult = "resolved"

\* C5: every generation a request strategy opens for reading or writing is
\* APP_CACHE, activation never passes APP_CACHE to caches.delete, and so no
\* strategy works on a generation that is being or has been deleted.
C5_StrategiesUseLiveGeneration ==
  /\ APP_CACHE \notin deleteIssued
  /\ \A i \in Requests :
       /\ reqs[i].opened \subseteq {APP_CACHE}
       /\ reqs[i].opened \cap deleteIssued = {}
       /\ (reqs[i].reads > 0 \/ reqs[i].writes > 0) => reqs[i].opened = {APP_CACHE}

\* C5 witness: after an activation that deleted stale generations while the
\* current one existed, a strategy has read and written the cache.
C5_Witness ==
  /\ deleteIssued # {}
  /\ APP_CACHE \in activateKeys
  /\ \E i \in Requests : reqs[i].reads > 0 /\ reqs[i].writes > 0

\* C6: every FetchEvent runs exactly one strategy, chosen by the path of its
\* URL: '/rates' gives Network-Only (one fetch of the request, no cache
\* lookup), otherwise '/' gives Stale-While-Revalidate (one fetch of the
\* cache-busted URL), otherwise Cache-First (a fetch only after a lookup).
C6_OneStrategyByPath ==
  \A i \in Requests :
    /\ Cardinality(reqs[i].strategies) = 1
    /\ IF reqs[i].url.pathname = "/rates"
       THEN /\ reqs[i].strategies = {NETWORK_ONLY}
            /\ reqs[i].fetches = 1 /\ reqs[i].netUrl = reqs[i].url
            /\ reqs[i].reads = 0
       ELSE IF reqs[i].url.pathname = "/"
       THEN /\ reqs[i].strategies = {SWR}
            /\ reqs[i].fetches = 1 /\ reqs[i].netUrl # reqs[i].url
       ELSE /\ reqs[i].strategies = {CACHE_FIRST}
            /\ reqs[i].netUrl = reqs[i].url
            /\ reqs[i].fetches <= reqs[i].reads

\* C6 witness: a request for the rate path carrying a query string was
\* handled to the end by Network-Only.
C6_Witness ==
  \E i \in Requests :
    /\ reqs[i].url.pathname = "/rates" /\ reqs[i].url.search # ""
    /\ reqs[i].strategies = {NETWORK_ONLY}
    /\ reqs[i].pc = "done" /\ reqs[i].net = "settled"

\* a request the claimed router would not match
Unmatched(r) ==
  /\ ~IsRate(r) /\ ~IsRoot(r)
  /\ r.url \notin ManifestUrls
  /\ r.url.origin # SELF

\* C7, as claimed: a request that is not the rate endpoint, not the root,
\* not in the manifest and not same-origin is not answered by the router and
\* causes no cache read or write.
C7_UnmatchedPassedThrough ==
  \A i \in Requests :
    Unmatched(reqs[i]) =>
      /\ ~reqs[i].responded
      /\ reqs[i].reads = 0 /\ reqs[i].writes = 0 /\ reqs[i].opened = {}

\* C7, amended: every request that is neither the rate endpoint nor the
\* root, whatever its origin and whether or not it is in the manifest, is
\* answered by Cache-First: the router responds to it, looks it up in the
\* current generation and, when it answers from the network, has stored that
\* response under the request first (where later reads find it until the
\* cache changes again).
C7_EverythingElseIsCacheFirst ==
  \A i \in Requests :
    (~IsRate(reqs[i]) /\ ~IsRoot(reqs[i])) =>
      /\ reqs[i].responded
      /\ reqs[i].hostFetches = 0
      /\ reqs[i].pc = "done" => reqs[i].reads = 1
      /\ (reqs[i].pc = "done" /\ reqs[i].answeredBy = "handlerFetch") =>
           /\ reqs[i].writes = 1
           /\ reqs[i].putEpoch = CacheEpoch =>
                Matching(caches, reqs[i].url) = reqs[i].delivered

\* C7 witness: a cross-origin request outside the manifest was answered from
\* the network and its response is in the current generation.
C7_Witness ==
  \E i \in Requests :
    /\ Unmatched(reqs[i])
    /\ reqs[i].pc = "done" /\ reqs[i].answeredBy = "handlerFetch"
    /\ Matching(caches, reqs[i].url) = reqs[i].delivered

\* C8, as claimed: for a request to the rate endpoint the response the page
\* receives is the outcome of the fetch the handler issued, the only network
\* request made for it.
C8_RateAnsweredByHandlerFetch ==
  \A i \in Requests :
    (IsRate(reqs[i]) /\ reqs[i].pc = "done") =>
      /\ reqs[i].answeredBy = "handlerFetch"
      /\ reqs[i].net = "settled"
      /\ reqs[i].delivered = (IF IsResponse(reqs[i].netResp) THEN reqs[i].netResp ELSE NoResponse)
      /\ reqs[i].fetches + reqs[i].hostFetches = 1

\* C9: handling a request to the rate endpoint opens no generation, reads no
\* entry, writes no entry and changes nothing in cache storage; while only
\* such requests have been handled cache storage is as activation left it.
C9_RateNeverTouchesCache ==
  /\ \A i \in Requests :
       IsRate(reqs[i]) =>
         /\ reqs[i].opened = {}
         /\ reqs[i].reads = 0 /\ reqs[i].writes = 0
         /\ reqs[i].mutations = 0
  /\ (\A i \in Requests : IsRate(reqs[i])) =>
       /\ CacheEpoch = 0
       /\ \A n \in DOMAIN caches : caches[n] \in {{}, Precached, AddAllResult({}, installFetch)}

\* C9 witness: a rate request was handled to the end, both its network
\* requests settled, with a populated current generation.
C9_Witness ==
  \E i \in Requests :
    /\ IsRate(reqs[i])
    /\ reqs[i].pc = "done" /\ reqs[i].net = "settled"
    /\ reqs[i].outcome = "fulfilled"
    /\ APP_CACHE \in DOMAIN caches /\ caches[APP_CACHE] # {}

\* C10: a Cache-First invocation whose request has an entry in the current
\* generation is answered with that entry, issues no network request and
\* changes nothing in the cache; two such invocations for one request with no
\* cache change between their lookups receive the same response.
C10_CacheFirstHitIdempotent ==
  /\ \A i \in Requests :
       /\ IsCacheFirstHit(reqs[i]) =>
            /\ reqs[i].outcome = "fulfilled"
            /\ reqs[i].fetches = 0 /\ reqs[i].hostFetches = 0
            /\ reqs[i].net = "none"
            /\ reqs[i].writes = 0 /\ reqs[i].mutations = 0
       /\ ( /\ CACHE_FIRST \in reqs[i].strategies
            /\ reqs[i].reads = 1
            /\ reqs[i].matchEpoch = CacheEpoch
            /\ Matching(caches, reqs[i].url) # NoResponse ) =>
            /\ IsCacheFirstHit(reqs[i])
            /\ reqs[i].delivered = Matching(caches, reqs[i].url)
  /\ \A i, j \in Requests :
       ( /\ IsCacheFirstHit(reqs[i]) /\ IsCacheFirstHit(reqs[j])
         /\ reqs[i].url = reqs[j].url
         /\ reqs[i].matchEpoch = reqs[j].matchEpoch ) =>
         reqs[i].delivered = reqs[j].delivered

\* C10 witness: two Cache-First invocations for the same precached request
\* were both answered with the cached entry.
C10_Witness ==
  \E i, j \in Requests :
    /\ i < j
    /\ IsCacheFirstHit(reqs[i]) /\ IsCacheFirstHit(reqs[j])
    /\ reqs[i].url = reqs[j].url
    /\ reqs[i].delivered = Response(200, 1)
    /\ reqs[j].delivered = Response(200, 1)

IsCacheFirst(r) == CACHE_FIRST \in r.strategies

IsSwr(r) == SWR \in r.strategies

\* C11: a Cache-First invocation whose lookup missed and whose fetch() gave a
\* response R answers the page with R, and only once R has been stored: when
\* the invocation is complete it has made one cache.put and the current
\* generation holds R under the request (until the cache changes again).
C11_MissStoresThenAnswers ==
  \A i \in Requests :
    ( /\ IsCacheFirst(reqs[i])
      /\ reqs[i].net = "settled" /\ IsResponse(reqs[i].netResp) ) =>
      /\ reqs[i].pc \in {"cfPut", "done"}
      /\ reqs[i].pc = "cfPut" =>
           reqs[i].outcome = "pending" /\ reqs[i].writes = 0
      /\ reqs[i].pc = "done" =>
           /\ reqs[i].outcome = "fulfilled"
           /\ reqs[i].answeredBy = "handlerFetch"
           /\ reqs[i].delivered = reqs[i].netResp
           /\ reqs[i].writes = 1
           /\ reqs[i].putEpoch = CacheEpoch =>
                Matching(caches, reqs[i].url) = reqs[i].netResp

\* C11 witness: a request for a script the manifest does not list missed, was
\* answered with the response of the network, and that response is the entry
\* of the current generation for it.
C11_Witness ==
  \E i \in Requests :
    /\ reqs[i].url = SelfUrl("/scripts/main.min.js")
    /\ IsCacheFirst(reqs[i]) /\ reqs[i].pc = "done"
    /\ reqs[i].netResp = Response(200, 2)
    /\ reqs[i].delivered = Response(200, 2)
    /\ Matching(caches, reqs[i].url) = Response(200, 2)

\* C12: a Cache-First invocation whose lookup missed and whose fetch() failed
\* rejects the promise that answers the page, delivers no response, and
\* makes no cache.put: as long as nobody else changes the cache the request
\* still has no entry.
C12_MissAndFailureRejects ==
  \A i \in Requests :
    ( /\ IsCacheFirst(reqs[i])
      /\ reqs[i].net = "settled" /\ ~IsResponse(reqs[i].netResp) ) =>
      /\ reqs[i].pc = "done"
      /\ reqs[i].outcome = "rejected"
      /\ reqs[i].delivered = NoResponse
      /\ reqs[i].answeredBy = "none"
      /\ reqs[i].fetches = 1
      /\ reqs[i].writes = 0 /\ reqs[i].putEpoch = 0
      /\ reqs[i].opened = {FromCacheName}
      /\ CacheEpoch = reqs[i].matchEpoch + reqs[i].mutations =>
           Matching(caches, reqs[i].url) = NoResponse

\* C12 witness: a Cache-First request missed, its fetch failed, the page got
\* a rejection and the request has no entry.
C12_Witness ==
  \E i \in Requests :
    /\ IsCacheFirst(reqs[i])
    /\ reqs[i].reads = 1
    /\ reqs[i].netResp = NetworkError /\ reqs[i].net = "settled"
    /\ reqs[i].outcome = "rejected"
    /\ Matching(caches, reqs[i].url) = NoResponse

\* C13: a stale-while-revalidate invocation whose lookup finds an entry for
\* the request of the event answers the page with that entry at once, in
\* whatever state its revalidation fetch is: the answer is the cached entry
\* while the fetch is pending and after it succeeded or failed.
C13_HitAnsweredFromCache ==
  \A i \in Requests :
    ( IsSwr(reqs[i]) /\ reqs[i].reads = 1 ) =>
      /\ ( /\ reqs[i].matchEpoch = CacheEpoch
           /\ Matching(caches, reqs[i].url) # NoResponse ) =>
           /\ reqs[i].answeredBy = "cache"
           /\ reqs[i].delivered = Matching(caches, reqs[i].url)
      /\ reqs[i].answeredBy = "cache" =>
           /\ reqs[i].pc = "done" /\ reqs[i].outcome = "fulfilled"
           /\ IsResponse(reqs[i].delivered)

\* C13 witness: the page has the cached document while the revalidation
\* fetch of that invocation is still pending.
C13_Witness ==
  \E i \in Requests :
    /\ IsSwr(reqs[i])
    /\ reqs[i].answeredBy = "cache" /\ reqs[i].outcome = "fulfilled"
    /\ reqs[i].delivered = Matching(caches, reqs[i].url)
    /\ reqs[i].net = "pending"

\* C14: a stale-while-revalidate invocation whose lookup missed leaves the
\* page waiting for as long as the cache-busted fetch is pending, and then
\* answers with what that fetch settled with: its response, or a rejection
\* when it failed.
C14_MissWaitsForNetwork ==
  \A i \in Requests :
    ( IsSwr(reqs[i]) /\ reqs[i].reads = 1 /\ reqs[i].answeredBy # "cache" ) =>
      /\ reqs[i].net = "pending" =>
           reqs[i].pc = "swrWaitNet" /\ reqs[i].outcome = "pending"
      /\ reqs[i].net = "settled" =>
           /\ reqs[i].pc = "done"
           /\ IsResponse(reqs[i].netResp) =>
                /\ reqs[i].outcome = "fulfilled"
                /\ reqs[i].answeredBy = "handlerFetch"
                /\ reqs[i].delivered = reqs[i].netResp
           /\ ~IsResponse(reqs[i].netResp) =>
                reqs[i].outcome = "rejected" /\ reqs[i].delivered = NoResponse

\* C14 witness: the lookup of the document missed and the page is waiting
\* for the cache-busted fetch.
C14_Witness ==
  \E i \in Requests :
    /\ IsSwr(reqs[i]) /\ reqs[i].reads = 1
    /\ Matching(caches, reqs[i].url) = NoResponse
    /\ reqs[i].net = "pending" /\ reqs[i].netUrl # reqs[i].url
    /\ reqs[i].pc = "swrWaitNet" /\ reqs[i].outcome = "pending"

\* a stale-while-revalidate invocation that missed, was answered from the
\* network, and whose write-back has completed
IsSwrMissWrittenBack(r) ==
  /\ IsSwr(r) /\ r.answeredBy = "handlerFetch"
  /\ IsResponse(r.netResp) /\ r.bg = "done"

\* C15: after a stale-while-revalidate invocation that missed has written
\* the response R of its revalidation fetch back, a lookup of the same
\* request (without the cache-busting suffix) made on the cache as that
\* write left it finds R.
C15_LookupAfterWriteBackFindsR ==
  \A i, j \in Requests :
    ( /\ i # j
      /\ IsSwrMissWrittenBack(reqs[i])
      /\ reqs[j].url = reqs[i].url
      /\ reqs[j].reads = 1
      /\ reqs[j].matchEpoch = reqs[i].putEpoch ) =>
      /\ reqs[j].answeredBy = "cache"
      /\ reqs[j].delivered = reqs[i].netResp

\* C15 witness: the document was missing, one invocation fetched and stored
\* body 2 for it, and the next invocation was answered with body 2 from the
\* cache.
C15_Witness ==
  \E i, j \in Requests :
    /\ i < j
    /\ IsSwrMissWrittenBack(reqs[i])
    /\ reqs[i].netResp = Response(200, 2)
    /\ reqs[j].url = reqs[i].url
    /\ reqs[j].matchEpoch = reqs[i].putEpoch
    /\ reqs[j].answeredBy = "cache"
    /\ reqs[j].delivered = Response(200, 2)

\* the entries of all generations
AllEntries == UNION { caches[n] : n \in DOMAIN caches }

\* C16: when the revalidation fetch of a stale-while-revalidate invocation
\* gives a response, that response is stored in the current generation under
\* the request of the event, whether the page was answered from the cache or
\* from the network; and no entry is ever stored under the cache-busted URL.
C16_RevalidationStoredUnderOriginal ==
  /\ \A i \in Requests :
       IsSwr(reqs[i]) =>
         /\ (reqs[i].net = "settled" /\ IsResponse(reqs[i].netResp)) =>
              reqs[i].bg \in {"put", "done"}
         /\ reqs[i].bg = "done" =>
              /\ IsResponse(reqs[i].netResp)
              /\ reqs[i].writes = 1
              /\ reqs[i].opened = {APP_CACHE}
              /\ reqs[i].putEpoch = CacheEpoch =>
                   Matching(caches, reqs[i].url) = reqs[i].netResp
         /\ reqs[i].netUrl # reqs[i].url
         /\ \A e \in AllEntries : e.url # reqs[i].netUrl
  /\ \A e \in AllEntries : e.url \in RequestUrls \cup ManifestUrls

\* C16 witness: the page was answered with the cached document (body 1), the
\* revalidation fetched body 2, and the entry for the document is now body 2.
C16_Witness ==
  \E i \in Requests :
    /\ IsSwr(reqs[i])
    /\ reqs[i].answeredBy = "cache" /\ reqs[i].delivered = Response(200, 1)
    /\ reqs[i].bg = "done" /\ reqs[i].netResp = Response(200, 2)
    /\ Matching(caches, reqs[i].url) = Response(200, 2)
    /\ Matching(caches, reqs[i].netUrl) = NoResponse

\* C17, as claimed: when the revalidation fetch of a stale-while-revalidate
\* invocation fails, nothing is written, the page that was answered from the
\* cache keeps its answer, and the promise handed to the host with
\* event.waitUntil does not carry the error.
C17_FailedRevalidationIsSilent ==
  \A i \in Requests :
    ( /\ IsSwr(reqs[i])
      /\ reqs[i].net = "settled" /\ ~IsResponse(reqs[i].netResp) ) =>
      /\ reqs[i].writes = 0 /\ reqs[i].putEpoch = 0
      /\ reqs[i].answeredBy = "cache" =>
           reqs[i].outcome = "fulfilled" /\ IsResponse(reqs[i].delivered)
      /\ reqs[i].bg # "rejected"

\* C18: every stale-while-revalidate invocation issues exactly one network
\* request, for the cache-busted URL, and has issued it when the listener
\* returns: before the lookup of the request of the event has an outcome,
\* and whether that lookup then hits or misses.
C18_OneBustedFetchUpFront ==
  \A i \in Requests :
    IsSwr(reqs[i]) =>
      /\ reqs[i].fetches = 1 /\ reqs[i].hostFetches = 0
      /\ reqs[i].net \in {"pending", "settled"}
      /\ reqs[i].netUrl.origin = reqs[i].url.origin
      /\ reqs[i].netUrl.pathname = reqs[i].url.pathname
      /\ reqs[i].netUrl.search # reqs[i].url.search
      /\ \E t \in 1..Len(reqs) : reqs[i].netUrl = CacheBust(reqs[i].url, t)

\* C18 witness: the cache-busted fetch is under way while the lookup, which
\* is going to hit, has not been made.
C18_Witness ==
  \E i \in Requests :
    /\ IsSwr(reqs[i])
    /\ reqs[i].pc = "swrMatch" /\ reqs[i].reads = 0
    /\ reqs[i].fetches = 1 /\ reqs[i].net = "pending"
    /\ Matching(caches, reqs[i].url) # NoResponse

\* a request that has written the response of its fetch back
HasWrittenBack(r) == r.writes = 1

\* C19, as claimed: when two requests for one identity have both written
\* their network responses back, the entry is the response of the one whose
\* fetch completed last.
C19_LastFetchWins ==
  \A i, j \in Requests :
    ( /\ i # j /\ reqs[i].url = reqs[j].url
      /\ HasWrittenBack(reqs[i]) /\ HasWrittenBack(reqs[j])
      /\ \A k \in Requests :
           (reqs[k].url = reqs[i].url /\ reqs[k].net # "none") => k \in {i, j}
      /\ reqs[i].netSeq < reqs[j].netSeq ) =>
      Matching(caches, reqs[j].url) = reqs[j].netResp

\* C19, amended: the entry of an identity is the response of the request
\* whose cache.put completed last among the requests for that identity that
\* have written back, whatever the order in which their fetches completed;
\* write-backs for other identities do not change it.
C19_LastWriteWins ==
  \A i \in Requests :
    ( /\ HasWrittenBack(reqs[i])
      /\ \A j \in Requests :
           (reqs[j].url = reqs[i].url /\ HasWrittenBack(reqs[j])) =>
             reqs[j].putEpoch <= reqs[i].putEpoch ) =>
      Matching(caches, reqs[i].url) = reqs[i].netResp

\* C19 witness: of two requests for one identity the one whose fetch
\* completed first wrote last, and the entry is its response.
C19_Witness ==
  \E i, j \in Requests :
    /\ reqs[i].url = reqs[j].url
    /\ HasWrittenBack(reqs[i]) /\ HasWrittenBack(reqs[j])
    /\ reqs[i].netSeq < reqs[j].netSeq
    /\ reqs[j].putEpoch < reqs[i].putEpoch
    /\ reqs[i].netResp # reqs[j].netResp
    /\ Matching(caches, reqs[i].url) = reqs[i].netResp

Calls == 1..Len(ops)

\* loadFromStore call g was made after saveToStore call p for the same key
\* had completed, and no other save for the key reached the store between
\* the write of p and the read of g
LoadFollowsSave(p, g) ==
  /\ ops[p].fn = "saveToStore" /\ ops[g].fn = "loadFromStore"
  /\ ops[p].key = ops[g].key
  /\ ops[p].outcome = "resolved"
  /\ ops[p].accessEpoch <= ops[g].callEpoch
  /\ ops[g].pc = "settled"
  /\ \A q \in Calls :
       ( /\ q # p /\ ops[q].fn = "saveToStore" /\ ops[q].key = ops[p].key
         /\ ops[q].pc = "settled" ) =>
         ~( ops[p].accessEpoch < ops[q].accessEpoch
            /\ ops[q].accessEpoch <= ops[g].accessEpoch )

\* C20: on IndexedDB and on localStorage alike, a loadFromStore(K) that
\* follows a completed saveToStore(K, V) resolves with a value equal to V,
\* for every JSON value V: scalars, arrays and objects, nested, and strings
\* that need escaping.
C20_LoadReturnsSaved ==
  \A p, g \in Calls :
    LoadFollowsSave(p, g) =>
      /\ ops[g].outcome = "resolved"
      /\ ops[g].result = ops[p].value

\* C20 witness: without IndexedDB the page saved an object that holds an
\* array with a string containing a quote, over a record of an earlier
\* session, and loaded it back from the text in localStorage.
C20_Witness ==
  \E p, g \in Calls :
    /\ idb = "absent"
    /\ LoadFollowsSave(p, g)
    /\ ops[p].key = "rates"
    /\ ops[p].value = JObj(<< JMember("rates", JArr(<< JNull, JStr(Quote) >>)) >>)
    /\ ls["rates"] =
         << "{", Quote, "rates", Quote, ":", "[", "null", ",",
            Quote, "\\\"", Quote, "]", "}" >>
    /\ ops[g].result = ops[p].value

\* a loadFromStore call that has settled
IsLoaded(op) == op.fn = "loadFromStore" /\ op.pc = "settled"

\* what the caller of a settled call observes
Observed(op) == << op.outcome, op.result, op.error >>

\* C21, as claimed: loadFromStore on a key without a record gives the
\* not-found outcome (a rejection, "Key not found"), and what its caller
\* observes differs from what the caller of a load of a stored null
\* observes, on IndexedDB and on localStorage.
C21_NotFoundIsDistinct ==
  /\ \A g \in Calls :
       (IsLoaded(ops[g]) /\ ~ops[g].found) =>
         ops[g].outcome = "rejected" /\ ops[g].error = "Key not found"
  /\ \A g, h \in Calls :
       ( /\ IsLoaded(ops[g]) /\ ~ops[g].found
         /\ IsLoaded(ops[h]) /\ ops[h].found /\ ops[h].result = JNull ) =>
         Observed(ops[g]) # Observed(ops[h])

\* C22, as claimed: no call of saveToStore or loadFromStore is left with a
\* promise that nothing can settle any more, also when indexedDB.open fails.
C22_EveryCallSettles ==
  \A i \in Calls : ops[i].pc # "hung"

\* C23, as claimed: when IndexedDB is absent, or present but unable to open,
\* saveToStore and loadFromStore work on localStorage: every call settles on
\* return, a save leaves the text of its value in localStorage, and a load
\* that follows a save resolves with the saved value.
C23_FallbackWheneverUnavailable ==
  idb # "available" =>
    /\ \A i \in Calls :
         /\ ops[i].pc = "settled"
         /\ ops[i].fn = "saveToStore" => ops[i].key \in DOMAIN ls
    /\ \A p, g \in Calls :
         LoadFollowsSave(p, g) =>
           ops[g].outcome = "resolved" /\ ops[g].result = ops[p].value

\* the saves for a key that had reached the store by a given epoch
SavesBy(key, epoch) ==
  { q \in Calls :
      /\ ops[q].fn = "saveToStore" /\ ops[q].key = key
      /\ ops[q].pc = "settled" /\ ops[q].accessEpoch <= epoch }

\* the save among them that wrote last
LastOf(saves) ==
  CHOOSE q \in saves : \A w \in saves : ops[w].accessEpoch <= ops[q].accessEpoch

\* the value the backing store in use holds for a key
Record(key) ==
  IF idb = "absent"
  THEN (IF key \in DOMAIN ls THEN JsonParse(ls[key]) ELSE JUndefined)
  ELSE IdbGet(kv, key)

\* saves p and q were pending at the same time
Overlap(p, q) ==
  /\ p # q
  /\ ops[p].fn = "saveToStore" /\ ops[q].fn = "saveToStore"
  /\ ops[p].pc = "settled" /\ ops[q].pc = "settled"
  /\ ops[q].callEpoch < ops[p].accessEpoch
  /\ ops[p].callEpoch < ops[q].accessEpoch

\* C24: whatever the interleaving of saves, the record of a key is the
\* value of the save for that key that wrote last, a load resolves with the
\* value of the save that wrote last before it read, and a key nobody saved
\* keeps the record it had.
C24_LastWriterWins ==
  /\ \A key \in DbKeys :
       IF SavesBy(key, StoreEpoch) # {}
       THEN Record(key) = ops[LastOf(SavesBy(key, StoreEpoch))].value
       ELSE Record(key) \in {JUndefined, JNull}
  /\ \A g \in Calls :
       ( /\ IsLoaded(ops[g])
         /\ SavesBy(ops[g].key, ops[g].accessEpoch) # {} ) =>
         /\ ops[g].outcome = "resolved"
         /\ ops[g].result =
              ops[LastOf(SavesBy(ops[g].key, ops[g].accessEpoch))].value

\* C24 witness: two saves of different documents for one key were pending
\* together on IndexedDB, the one called last wrote last, and a load made
\* after both resolved with its document.
C24_Witness ==
  \E p, q, g \in Calls :
    /\ p < q /\ Overlap(p, q)
    /\ idb = "available"
    /\ ops[p].key = ops[q].key /\ ops[p].value # ops[q].value
    /\ ops[p].accessEpoch < ops[q].accessEpoch
    /\ IsLoaded(ops[g]) /\ ops[g].key = ops[p].key
    /\ ops[g].callEpoch >= ops[q].accessEpoch
    /\ ops[g].result = ops[q].value

\* C25: no step of the install handler or of the activate handler changes a
\* record of the key-value store, on IndexedDB or on localStorage: whatever
\* generations are created, filled or deleted, the records stay as they were.
C25_RotationKeepsRecords ==
  [][kv' = kv /\ ls' = ls]_vars

\* C25 witness: the worker installed, activation deleted a stale generation
\* and completed, and the record of an earlier session is still there.
C25_Witness ==
  /\ swState = "activated"
  /\ installResult = "resolved" /\ activateResult = "resolved"
  /\ deleteIssued # {} /\ DOMAIN caches = {APP_CACHE}
  /\ idb = "available"
  /\ "rates" \in DOMAIN kv /\ Record("rates") = JNull


\* the calls of fetchJson
JsonCalls == { i \in 1..Len(xhrs) : xhrs[i].fn = "fetchJson" }

\* the call rejected with the timeout error
TimedOut(x) ==
  x.outcome = "rejected" /\ x.error = x.errorString \o " Request timed out."

\* C26 as stated: a fetchJson call with a timeout of 0, or with a timeout
\* smaller than the server's latency, that has settled has rejected with
\* the timeout error.
C26_ZeroOrShortTimeoutRejects ==
  \A i \in JsonCalls :
    ( /\ xhrs[i].readyState = "done"
      /\ \/ xhrs[i].timeout = 0
         \/ xhrs[i].timeout < xhrs[i].exchange.latency )
      => TimedOut(xhrs[i])

\* C26, amended: a fetchJson call with a positive timeout smaller than the
\* server's latency rejects with the timeout error and never resolves; a
\* call with a timeout of 0 has no timeout: it never gets the timeout
\* error, and resolves when the server answers 200.
C26_ShortTimeoutRejects ==
  \A i \in JsonCalls :
    /\ ( /\ xhrs[i].readyState = "done"
         /\ xhrs[i].timeout > 0
         /\ xhrs[i].timeout < xhrs[i].exchange.latency )
         => TimedOut(xhrs[i])
    /\ ( xhrs[i].readyState = "done" /\ xhrs[i].timeout = 0 )
         => /\ ~TimedOut(xhrs[i])
            /\ xhrs[i].event # "timeout"
            /\ ( xhrs[i].exchange.kind = "response"
                 /\ xhrs[i].exchange.status = 200 )
                 => xhrs[i].outcome = "resolved"

\* a fetchJson call whose timeout ran out before the server answered
C26_Witness ==
  \E i \in JsonCalls :
    /\ xhrs[i].timeout > 0
    /\ xhrs[i].timeout < xhrs[i].exchange.latency
    /\ xhrs[i].exchange.kind = "response"
    /\ xhrs[i].exchange.status = 200
    /\ TimedOut(xhrs[i])

\* the body of the answer is not valid JSON
Malformed(x) ==
  x.exchange.kind = "response" /\ JsonParse(x.exchange.text) = JSyntaxError

\* C27: a fetchJson call answered with a body that is not valid JSON
\* rejects, with an error that is neither the transport error nor the
\* timeout error nor the error of an HTTP failure; it does not resolve.
C27_MalformedBodyRejects ==
  \A i \in JsonCalls :
    ( /\ xhrs[i].event = "load"
      /\ xhrs[i].exchange.status = 200
      /\ Malformed(xhrs[i]) )
      => /\ xhrs[i].outcome = "rejected"
         /\ xhrs[i].error # xhrs[i].errorString
         /\ ~TimedOut(xhrs[i])

\* C28 as stated: a fetchJson call whose exchange completed resolves for
\* every 2xx status and rejects for every other status.
C28_Every2xxResolves ==
  \A i \in JsonCalls :
    xhrs[i].event = "load"
      => IF xhrs[i].exchange.status \in 200..299
         THEN xhrs[i].outcome = "resolved"
         ELSE xhrs[i].outcome = "rejected"

\* C28, amended: a fetchJson call whose exchange completed resolves exactly
\* when the status is 200; for every other status, the other 2xx statuses
\* included, it rejects with an error whose message is the errorString
\* followed by " HTTP ", the status text of the response (which may be
\* empty) and a full stop, a message no transport failure or timeout gives.
C28_Only200Resolves ==
  \A i \in JsonCalls :
    xhrs[i].event = "load"
      => IF xhrs[i].exchange.status = 200
         THEN xhrs[i].outcome = "resolved"
         ELSE /\ xhrs[i].outcome = "rejected"
              /\ xhrs[i].error = xhrs[i].errorString \o " HTTP "
                                   \o StatusText(xhrs[i].exchange) \o "."
              /\ xhrs[i].error # xhrs[i].errorString
              /\ ~TimedOut(xhrs[i])

\* a fetchJson call answered 201 has rejected
C28_Witness ==
  \E i \in JsonCalls :
    /\ xhrs[i].event = "load"
    /\ xhrs[i].exchange.status = 201
    /\ xhrs[i].outcome = "rejected"

\* the outcome that goes with the terminal event of a call
OutcomeOf(x) ==
  CASE x.event = "load" /\ x.exchange.status = 200 ->
         x.outcome = "resolved"
    [] x.event = "load" /\ x.exchange.status # 200 ->
         /\ x.outcome = "rejected"
         /\ x.error = x.errorString \o " HTTP " \o StatusText(x.exchange) \o "."
    [] x.event \in {"error", "abort"} ->
         x.outcome = "rejected" /\ x.error = x.errorString
    [] x.event = "timeout" -> TimedOut(x)
    [] OTHER -> x.outcome = "pending"

\* C29: every call of fetchJson or fetchFile gets at most one terminal
\* event; its promise is settled by exactly that event, once, with the
\* outcome that goes with the event; and after the event the timeout of
\* the request is no longer running.
C29_OneTerminalOutcome ==
  \A i \in 1..Len(xhrs) :
    /\ xhrs[i].events <= 1
    /\ xhrs[i].settleCalls = xhrs[i].events
    /\ (xhrs[i].readyState = "done") = (xhrs[i].events = 1)
    /\ (xhrs[i].outcome # "pending") = (xhrs[i].events = 1)
    /\ OutcomeOf(xhrs[i])
    /\ xhrs[i].readyState = "done" => ~xhrs[i].timer

\* a call with a timeout that was aborted in time: settled, timer stopped
C29_Witness ==
  \E i \in 1..Len(xhrs) :
    /\ xhrs[i].timeout > 0
    /\ xhrs[i].event = "abort"
    /\ xhrs[i].outcome = "rejected"
    /\ ~xhrs[i].timer


\* the runs of the rate task
RateRuns == { i \in 1..Len(syncs) : syncs[i].tag = "rates" }

\* C30: whenever a run of the rate task has shown its notification, its
\* put of the fetched document under 'rates' has completed and the record
\* holds a document; a run whose fetch or whose write failed has shown
\* none.
C30_NotifiedOnlyAfterPersisted ==
  \A i \in RateRuns :
    syncs[i].notified
      => /\ syncs[i].stored
         /\ "rates" \in DOMAIN kv
         /\ syncs[i].waitUntil # "rejected"


\* C31: a run of the rate task whose fetch has failed is over: it has
\* fetched once, it has written nothing and requested no write, it has
\* shown no notification, and the promise it handed to waitUntil has
\* rejected.
C31_FailedFetchIsReported ==
  \A i \in RateRuns :
    ( syncs[i].exchange.kind = "error" /\ syncs[i].pc # "fetching" )
      => /\ syncs[i].pc = "finished"
         /\ syncs[i].fetches = 1
         /\ ~syncs[i].stored
         /\ syncs[i].json = JUndefined
         /\ ~syncs[i].notified
         /\ syncs[i].waitUntil = "rejected"

\* a run whose fetch failed has rejected, and the record that was there
\* before is still there
C31_Witness ==
  \E i \in RateRuns :
    /\ syncs[i].exchange.kind = "error"
    /\ syncs[i].waitUntil = "rejected"
    /\ "rates" \in DOMAIN kv
    /\ kv["rates"] = JNull


\* C35: whenever the promise a run of the rate task handed to waitUntil has
\* resolved, the put of that run has completed and the record under
\* 'rates' holds a document, so that a get made from then on finds it.
C35_CompletionAfterWrite ==
  \A i \in RateRuns :
    syncs[i].waitUntil = "resolved"
      => /\ syncs[i].stored
         /\ IdbGet(kv, "rates") # JUndefined


\* C33: every entry of every generation holds the response of a successful
\* fetch, one whose status is 2xx: neither a failed fetch nor a fetch
\* answered with an error response has created or replaced an entry.
C33_OnlySuccessfulResponsesStored ==
  \A name \in DOMAIN caches :
    \A e \in caches[name] : IsResponse(e.response) /\ IsOk(e.response)


\* C34 as stated: a Cache-First request whose cache read or cache write
\* failed is answered with a rejection; a revalidated request whose
\* write-back failed keeps the response it was answered with.
C34_StorageFailurePropagates ==
  \A i \in 1..Len(reqs) :
    /\ ( /\ CACHE_FIRST \in reqs[i].strategies
         /\ reqs[i].readFailed \/ reqs[i].writeFailed
         /\ reqs[i].pc = "done" )
         => reqs[i].outcome = "rejected"
    /\ ( /\ SWR \in reqs[i].strategies
         /\ reqs[i].writeFailed
         /\ reqs[i].pc = "done" )
         => reqs[i].outcome = "fulfilled" /\ IsResponse(reqs[i].delivered)


\* C34, amended: a Cache-First request whose cache write failed is answered
\* with a rejection. One whose cache read failed is handled as a miss: it
\* fetches once, and it is answered with the network response exactly when
\* the fetch gave a response and the write-back did not fail. A revalidated
\* request whose write-back failed keeps the response it was answered with.
C34_ReadFailureIsAMiss ==
  \A i \in 1..Len(reqs) :
    reqs[i].pc = "done" =>
      /\ ( CACHE_FIRST \in reqs[i].strategies /\ reqs[i].writeFailed )
           => reqs[i].outcome = "rejected"
      /\ ( CACHE_FIRST \in reqs[i].strategies /\ reqs[i].readFailed )
           => /\ reqs[i].fetches = 1
              /\ (reqs[i].outcome = "fulfilled")
                   = (IsResponse(reqs[i].netResp) /\ ~reqs[i].writeFailed)
              /\ reqs[i].outcome = "fulfilled"
                   => reqs[i].delivered = reqs[i].netResp
      /\ ( SWR \in reqs[i].strategies /\ reqs[i].writeFailed )
           => /\ reqs[i].outcome = "fulfilled"
              /\ IsResponse(reqs[i].delivered)
              /\ reqs[i].bg = "rejected"

\* a Cache-First request whose network response could not be stored has
\* been rejected
C34_Witness ==
  \E i \in 1..Len(reqs) :
    /\ CACHE_FIRST \in reqs[i].strategies
    /\ reqs[i].writeFailed
    /\ IsOk(reqs[i].netResp)
    /\ reqs[i].outcome = "rejected"


\* the listeners in a sequence
Attached(listeners) == { listeners[k] : k \in 1..Len(listeners) }

\* how often listener l was invoked with value v
Invocations(e, l, v) ==
  Cardinality({ k \in 1..Len(e.calls) : e.calls[k] = Call(l, v) })

AllSavesSettled == \A i \in 1..Len(ops) : ops[i].pc = "settled"

SettledRateFetches ==
  { k \in 1..Len(app.fetches) : app.fetches[k].outcome # "pending" }

\* C32: the 'rates' sync has been registered only when the request of a
\* rate fetch that called _scheduleRateFetch rejected; no rate fetch whose
\* request resolved has led to the registration.
C32_RegisteredOnlyAfterFailedFetch ==
  app.registrations > 0 =>
    \A k \in SettledRateFetches :
      app.fetches[k].scheduled => xhrs[app.fetches[k].xhr].outcome = "rejected"

\* the request of the rate fetch failed, timed out, met a status that is
\* not a success, or met a body that does not parse
Unsuccessful(x) == x.outcome = "rejected" \/ Malformed(x)

\* C36: a rate fetch whose request failed, timed out, met a non-success
\* status or met an unparsable body has left this._rates as it was and has
\* not written the 'rates' record.
C36_FailedFetchLeavesRates ==
  \A k \in SettledRateFetches :
    Unsuccessful(xhrs[app.fetches[k].xhr]) =>
      app.fetches[k].after = app.fetches[k].before /\ ~app.fetches[k].stored

\* C38 as stated: the application is booted only when the stylesheet, the
\* mappings, the common values and the rates have all been loaded, none of
\* them having failed.
C38_BootedOnlyAfterAllLoaded ==
  app.booted =>
    /\ app.styles = "resolved"
    /\ app.mappings = "resolved"
    /\ app.common = "resolved" /\ ~app.defaulted
    /\ app.loadRates = "resolved"

\* C38: the application is booted only when the stylesheet and the mappings
\* have loaded, the common values have been loaded or defaulted and the
\* promise of the rates has resolved; with the stylesheet, the mappings or
\* the promise of the rates rejected it is not booted.
C38_BootedOnlyAfterLoadedOrDefaulted ==
  /\ app.booted =>
       /\ app.styles = "resolved"
       /\ app.mappings = "resolved"
       /\ app.common = "resolved"
       /\ app.loadRates = "resolved"
  /\ "rejected" \in {app.styles, app.mappings, app.loadRates} => ~app.booted

\* the application is booted although a common value could not be loaded
C38_Witness == app.booted /\ app.defaulted /\ app.common = "resolved"

\* the _loadRates() call of _init found the stored rates document
StoredRatesLoaded ==
  /\ app.loads # << >>
  /\ app.loads[1].pc = "done"
  /\ ops[app.loads[1].op].outcome = "resolved"
  /\ ops[app.loads[1].op].result = StoredRates

\* C39: once the stored rates document has been loaded, loadRates is
\* resolved whatever the rate fetch does, so booting waits only for the
\* stylesheet, the mappings and the common values; the first rate fetch is
\* the fetch of the latest rates, made after the load; and a rate fetch
\* whose request rejected has scheduled the sync and has changed neither
\* this._rates nor the 'rates' record.
C39_BootIndependentOfFetch ==
  StoredRatesLoaded =>
    /\ app.loadRates = "resolved"
    /\ BootReady(app) <=> ( /\ app.styles = "resolved"
                            /\ app.mappings = "resolved"
                            /\ app.common = "resolved" )
    /\ Len(app.fetches) >= 1 /\ app.fetches[1].kind = "latest"
    /\ \A k \in SettledRateFetches :
         xhrs[app.fetches[k].xhr].outcome = "rejected" =>
           /\ app.fetches[k].scheduled
           /\ app.fetches[k].after = app.fetches[k].before
           /\ ~app.fetches[k].stored

\* booted with the stored rates, the fetch of the latest rates timed out
\* and the sync registered
C39_Witness ==
  /\ StoredRatesLoaded
  /\ app.booted
  /\ app.rates = StoredRates
  /\ 1 \in SettledRateFetches
  /\ TimedOut(xhrs[app.fetches[1].xhr])
  /\ app.registrations = 1

====
